---- MODULE Spec2Model ----
(***************************************************************************)
(* State RAG: the versioned artifact store (backend/state_rag_manager.py), *)
(* the validation rule chain (backend/validator.py), the generator output  *)
(* parser (backend/llm_output_parser.py) and the request controller        *)
(* (backend/orchestrator.py).                                              *)
(*                                                                         *)
(* A file path is the record [dirs, stem, ext]: the directory segments of  *)
(* the string split on "/", and the file name split at its last ".".  The  *)
(* string "./src/App.tsx" is [dirs |-> <<".", "src">>, stem |-> "App",     *)
(* ext |-> "tsx"].  The wildcard "*" is [dirs |-> <<>>, stem |-> "*",      *)
(* ext |-> ""].  Timestamps, name, framework and styling of an Artifact    *)
(* are not read by any operation modelled here and are left out.           *)
(***************************************************************************)
EXTENDS Integers, Sequences, FiniteSets, TLC

VARIABLES
    artifacts,   \* StateRAGManager.artifacts: the in-memory list of one store handle
    disk,        \* the content of artifacts.json as last written by _persist
    nextId,      \* the next fresh artifact_id (uuid4 in the code)
    ncommits,    \* ghost: accepted commits per stored path, since the empty store
    last,        \* ghost: the outcome of the last store operation
    req,         \* ghost: the outcome of the last Orchestrator.handle_request
    nrequests,   \* ghost: the number of requests handled
    vin,         \* inputs of the operation under evaluation (rule, expansion and
                 \* retrieval specifications)
    vout,        \* result of the last evaluation
    handles,     \* the store handles of concurrent requests: position, in-memory list
    fstate,      \* artifacts.json between open("w") and close: complete or not
    walk,        \* the locals of the _expand_dependencies loop, one iteration at a time
    state_file,  \* the text of artifacts.json as a document (storage specification)
    mgr,         \* one StateRAGManager: constructed or not, its embedding index
    gem,         \* the locals of LLMAdapter._gemini_response_with_retry, and in
                 \* outer those of Orchestrator._llm_generate_with_retry
    projects_file, \* projects.json: present or not, and the list it holds
    store_calls  \* the project_store calls in flight: position and locals of each

vars == <<artifacts, disk, nextId, ncommits, last, req, nrequests, vin, vout,
          handles, fstate, walk, state_file, mgr, gem,
          projects_file, store_calls>>

(***************************************************************************)
(* Bounds                                                                  *)
(***************************************************************************)
MaxCommits == 4      \* accepted commits made through the handle
MaxBatch == 2        \* blocks in one generator response
MaxRequests == 1     \* generation requests handled through the handle
MaxLong == 10        \* accepted commits of a long-running handle
MaxHandles == 2      \* store handles open on the project at the same time
MaxConc == 3         \* accepted commits made through concurrent handles

(***************************************************************************)
(* Program constants                                                       *)
(***************************************************************************)
CleanupEvery == 10       \* commit: len(self.artifacts) % 10 == 0
KeepVersions == 5        \* commit: cleanup_old_versions(keep_versions=5)
RetrieveLimit == 10      \* retrieve: limit: int = 10

USER == "user_modified"
AI_GEN == "ai_generated"
AI_MOD == "ai_modified"
SYS_GEN == "system_generated"
ArtifactSource == {USER, AI_GEN, AI_MOD, SYS_GEN}

(***************************************************************************)
(* Paths                                                                   *)
(***************************************************************************)
P(dirs, stem, ext) == [dirs |-> dirs, stem |-> stem, ext |-> ext]

Star == P(<<>>, "*", "")
EmptyPath == P(<<>>, "", "")

\* str.lower() on the segment and extension atoms used in the model
Lower(s) ==
    CASE s = "TSX" -> "tsx"
      [] s = "ETC" -> "etc"
      [] OTHER -> s

\* os.path.normpath on the directory segments of a relative path: "." and
\* empty segments are dropped, "seg/.." collapses, leading ".." are kept
RECURSIVE NormSegs(_, _)
NormSegs(segs, acc) ==
    IF segs = <<>> THEN acc
    ELSE LET s == Head(segs) IN
         IF s = "." \/ s = "" THEN NormSegs(Tail(segs), acc)
         ELSE IF s = ".."
              THEN IF acc # <<>> /\ acc[Len(acc)] # ".."
                   THEN NormSegs(Tail(segs), SubSeq(acc, 1, Len(acc) - 1))
                   ELSE NormSegs(Tail(segs), Append(acc, ".."))
              ELSE NormSegs(Tail(segs), Append(acc, s))

normpath(p) == [p EXCEPT !.dirs = NormSegs(p.dirs, <<>>)]

ForbiddenPrefixes == {"etc", "sys", "root", "proc", "dev", "windows", "system32", "program files"}

\* Artifact.file_path_must_look_valid raises
PathInvalid(p) ==
    LET n == normpath(p) IN
    \/ n.dirs # <<>> /\ n.dirs[1] = ".."
    \/ n.dirs # <<>> /\ Lower(n.dirs[1]) \in ForbiddenPrefixes

\* Artifact.file_path_must_look_valid returns the normalized path
file_path_must_look_valid(p) == normpath(p)

\* Artifact.language_must_be_known
AllowedLanguages == {"tsx", "ts", "js", "css", "json", "jsx"}

\* The path strings of the model
pA == P(<<>>, "a", "tsx")            \* "a.tsx"
pDotA == P(<<".">>, "a", "tsx")      \* "./a.tsx"
pB == P(<<>>, "b", "css")            \* "b.css"
pHtml == P(<<>>, "index", "html")    \* "index.html"
pC == P(<<"src">>, "c", "ts")        \* "src/c.ts"

CandPaths == {pA, pB}                    \* file paths of directly committed artifacts
GenPaths == {pA, pDotA, pB, pHtml}       \* file paths the generator may emit

\* a "FILE:" header line taken as a file path, which is what the header pattern
\* captures when the header before it has no path of its own: "FILE: a.tsx",
\* "FILE: ./a.tsx", and "FILE:" (stripped) for a header without a path
HeaderText(p) ==
    IF p = EmptyPath THEN P(<<>>, "FILE:", "")
    ELSE IF p.dirs = <<>> THEN [p EXCEPT !.stem = "FILE: " \o p.stem]
    ELSE [p EXCEPT !.dirs = <<"FILE: " \o p.dirs[1]>> \o Tail(p.dirs)]

HeaderPaths == {HeaderText(p) : p \in GenPaths \cup {EmptyPath}}

\* position of the path string in ascending str order (ASCII):
\* "*" < "./a.tsx" < "FILE:..." < "a.tsx" < "b.css" < "index.html" < "src/c.ts"
PathRank(p) ==
    CASE p = Star -> 0
      [] p = pDotA -> 1
      [] p \in HeaderPaths -> 2
      [] p = pA -> 3
      [] p = pB -> 4
      [] p = pHtml -> 5
      [] p = pC -> 6
      [] OTHER -> 7

AllPaths == CandPaths \cup GenPaths \cup HeaderPaths
StoredPaths == {normpath(p) : p \in AllPaths}
Contents == {"c1", "c2"}                 \* non-empty file contents the generator may emit
CandContents == {"c1"}                   \* contents of directly committed artifacts

(***************************************************************************)
(* Artifact (backend/artifact.py)                                          *)
(***************************************************************************)
NoArt == [artifact_id |-> 0, type |-> "", file_path |-> EmptyPath, content |-> "",
          language |-> "", version |-> 0, is_active |-> FALSE, source |-> "",
          dependencies |-> <<>>]

\* Artifact(...) raises a validation error
ArtifactInvalid(file_path, content, language) ==
    \/ content = ""
    \/ PathInvalid(file_path)
    \/ language \notin AllowedLanguages

\* Artifact(...): defaults version = 1, is_active = True, the file path normalized
Artifact(id, type, file_path, content, language, source, deps) ==
    [artifact_id |-> id, type |-> type,
     file_path |-> file_path_must_look_valid(file_path),
     content |-> content, language |-> language, version |-> 1,
     is_active |-> TRUE, source |-> source, dependencies |-> deps]

Range(s) == {s[i] : i \in 1..Len(s)}

MaxOf(S) == CHOOSE m \in S : \A x \in S : x <= m

(***************************************************************************)
(* StateRAGManager.cleanup_old_versions                                    *)
(***************************************************************************)
\* keys of by_path in insertion order: the paths by first occurrence
RECURSIVE PathOrder(_, _)
PathOrder(arts, acc) ==
    IF arts = <<>> THEN acc
    ELSE IF Head(arts).file_path \in Range(acc)
         THEN PathOrder(Tail(arts), acc)
         ELSE PathOrder(Tail(arts), Append(acc, Head(arts).file_path))

\* insert x after the elements whose version is >= x.version (stable, descending)
RECURSIVE InsertDesc(_, _)
InsertDesc(sorted, x) ==
    IF sorted = <<>> THEN <<x>>
    ELSE IF Head(sorted).version >= x.version
         THEN <<Head(sorted)>> \o InsertDesc(Tail(sorted), x)
         ELSE <<x>> \o sorted

\* sorted(versions, key=lambda x: x.version, reverse=True)
RECURSIVE SortDesc(_, _)
SortDesc(versions, acc) ==
    IF versions = <<>> THEN acc
    ELSE SortDesc(Tail(versions), InsertDesc(acc, Head(versions)))

Take(s, n) == SubSeq(s, 1, IF Len(s) < n THEN Len(s) ELSE n)

\* mutant: the oldest inactive versions are the ones kept
KeptOf_OldestInactive(arts, path, keep_versions) ==
    LET versions == SelectSeq(arts, LAMBDA a : a.file_path = path)
        sorted_versions == SortDesc(versions, <<>>)
        active == SelectSeq(sorted_versions, LAMBDA v : v.is_active)
        inactive == SelectSeq(sorted_versions, LAMBDA v : ~v.is_active)
        n == IF Len(inactive) < keep_versions THEN Len(inactive) ELSE keep_versions
    IN active \o SubSeq(inactive, Len(inactive) - n + 1, Len(inactive))

\* mutant: only the newest inactive versions are kept
KeptOf_InactiveOnly(arts, path, keep_versions) ==
    LET versions == SelectSeq(arts, LAMBDA a : a.file_path = path)
        sorted_versions == SortDesc(versions, <<>>)
        inactive == SelectSeq(sorted_versions, LAMBDA v : ~v.is_active)
    IN Take(inactive, keep_versions)

\* the artifacts kept for one path: the active ones, then the newest inactive ones
KeptOf(arts, path, keep_versions) ==
    LET versions == SelectSeq(arts, LAMBDA a : a.file_path = path)
        sorted_versions == SortDesc(versions, <<>>)
        active == SelectSeq(sorted_versions, LAMBDA v : v.is_active)
        inactive == SelectSeq(sorted_versions, LAMBDA v : ~v.is_active)
    IN active \o Take(inactive, keep_versions)

RECURSIVE ToKeep(_, _, _)
ToKeep(arts, paths, keep_versions) ==
    IF paths = <<>> THEN <<>>
    ELSE KeptOf(arts, Head(paths), keep_versions)
         \o ToKeep(arts, Tail(paths), keep_versions)

\* the list and the file after cleanup_old_versions(keep_versions)
cleanup_old_versions(arts, file, keep_versions) ==
    LET to_keep == ToKeep(arts, PathOrder(arts, <<>>), keep_versions)
        removed == Len(arts) - Len(to_keep)
    IN [artifacts |-> to_keep,
        disk |-> IF removed > 0 THEN to_keep ELSE file,
        removed |-> removed]

(***************************************************************************)
(* StateRAGManager.commit                                                  *)
(***************************************************************************)
ActiveVersions(arts, file_path) ==
    SelectSeq(arts, LAMBDA a : a.file_path = file_path /\ a.is_active)

\* mutant: only ai_modified candidates are held back
AuthorityViolation_OnlyAiModified(active_versions, new_artifact) ==
    \E i \in 1..Len(active_versions) :
        /\ active_versions[i].source = USER
        /\ new_artifact.source = AI_MOD

\* mutant: a user_modified artifact can never be superseded
AuthorityViolation_AnyCandidate(active_versions, new_artifact) ==
    \E i \in 1..Len(active_versions) : active_versions[i].source = USER

\* mutant: no authority enforcement in commit
AuthorityViolation_Never(active_versions, new_artifact) == FALSE

\* Authority enforcement: the commit raises ValueError
AuthorityViolation(active_versions, new_artifact) ==
    \E i \in 1..Len(active_versions) :
        /\ active_versions[i].source = USER
        /\ new_artifact.source # USER

\* mutant: the number of active versions instead of their highest version
NewVersion_Count(active_versions) == Len(active_versions) + 1

\* Versioning
NewVersion(active_versions) ==
    IF active_versions = <<>> THEN 1
    ELSE MaxOf({active_versions[i].version : i \in 1..Len(active_versions)}) + 1

\* mutant: the old versions stay active
Supersede_None(arts, file_path) == arts

\* old.is_active = False for every active artifact of the path
Supersede(arts, file_path) ==
    [i \in 1..Len(arts) |->
        IF arts[i].file_path = file_path /\ arts[i].is_active
        THEN [arts[i] EXCEPT !.is_active = FALSE]
        ELSE arts[i]]

\* mutant: the periodic cleanup never runs
CleanupDue_Never(arts) == FALSE

\* periodic cleanup after the append and the persist
CleanupDue(arts) == Len(arts) % CleanupEvery = 0

\* mutant: the old versions are deactivated before the authority check
commit_SupersedeBeforeCheck(arts, file, new_artifact) ==
    LET active_versions == ActiveVersions(arts, new_artifact.file_path) IN
    IF AuthorityViolation(active_versions, new_artifact)
    THEN [ok |-> FALSE, err |-> "authority",
          artifacts |-> Supersede(arts, new_artifact.file_path), disk |-> file,
          out |-> NoArt, cleaned |-> FALSE, removed |-> 0]
    ELSE LET committed == [new_artifact EXCEPT
                              !.version = NewVersion(active_versions),
                              !.is_active = TRUE]
             appended == Append(Supersede(arts, new_artifact.file_path), committed)
         IN [ok |-> TRUE, err |-> "", artifacts |-> appended,
             disk |-> appended, out |-> committed, cleaned |-> FALSE, removed |-> 0]

\* mutant: an active version of the path is overwritten in place with the new
\* content and the next version number, nothing is appended
commit_InPlace(arts, file, new_artifact) ==
    LET active_versions == ActiveVersions(arts, new_artifact.file_path) IN
    IF AuthorityViolation(active_versions, new_artifact)
    THEN [ok |-> FALSE, err |-> "authority", artifacts |-> arts, disk |-> file,
          out |-> NoArt, cleaned |-> FALSE, removed |-> 0]
    ELSE LET committed == [new_artifact EXCEPT
                              !.version = NewVersion(active_versions),
                              !.is_active = TRUE]
             written == IF active_versions = <<>> THEN Append(arts, committed)
                        ELSE [i \in 1..Len(arts) |->
                                 IF arts[i].file_path = new_artifact.file_path
                                    /\ arts[i].is_active
                                 THEN [committed EXCEPT
                                          !.artifact_id = arts[i].artifact_id]
                                 ELSE arts[i]]
         IN [ok |-> TRUE, err |-> "", artifacts |-> written, disk |-> written,
             out |-> committed, cleaned |-> FALSE, removed |-> 0]

\* the result of commit(new_artifact) on the list arts and the file content file
commit(arts, file, new_artifact) ==
    LET active_versions == ActiveVersions(arts, new_artifact.file_path) IN
    IF AuthorityViolation(active_versions, new_artifact)
    THEN [ok |-> FALSE, err |-> "authority", artifacts |-> arts, disk |-> file,
          out |-> NoArt, cleaned |-> FALSE, removed |-> 0]
    ELSE LET committed == [new_artifact EXCEPT
                              !.version = NewVersion(active_versions),
                              !.is_active = TRUE]
             appended == Append(Supersede(arts, new_artifact.file_path), committed)
             cleaned == IF CleanupDue(appended)
                        THEN cleanup_old_versions(appended, appended, KeepVersions)
                        ELSE [artifacts |-> appended, disk |-> appended,
                              removed |-> 0]
         IN [ok |-> TRUE, err |-> "", artifacts |-> cleaned.artifacts,
             disk |-> cleaned.disk, out |-> committed,
             cleaned |-> CleanupDue(appended), removed |-> cleaned.removed]

(***************************************************************************)
(* Validation chain (backend/validator.py)                                 *)
(***************************************************************************)
ProposedArtifact(file_path, content, language) ==
    [file_path |-> file_path, content |-> content, language |-> language]

\* Optional[...] = None
None == "None"

\* ValidationResult: ok, artifacts, reason (path is the file the reason names)
Pass == [ok |-> TRUE, reason |-> "", path |-> EmptyPath, artifacts |-> None]
Fail(reason, file_path) ==
    [ok |-> FALSE, reason |-> reason, path |-> file_path, artifacts |-> None]

\* str.strip() on the content atoms of the model: " " is whitespace only
Strip(c) == IF c = " " THEN "" ELSE c

\* file_path.endswith("." + ext); endswith("") is always true
EndsWith(file_path, ext) == ext = "" \/ file_path.ext = ext

\* the first index of the batch the loop stops at: the least of S, 0 when S is empty
FirstBad(S) ==
    IF S = {} THEN 0 ELSE CHOOSE i \in S : \A j \in S : i <= j

\* mutant: the wildcard is not honoured
is_allowed_NoWildcard(file_path, allowed_paths) == file_path \in allowed_paths

\* _is_allowed
is_allowed(file_path, allowed_paths) ==
    Star \in allowed_paths \/ file_path \in allowed_paths

\* mutant: every language implies its own extension
ext_for_lang_Every(lang) == lang

\* SyntaxValidator._ext_for_lang
ext_for_lang(lang) ==
    CASE lang = "tsx" -> "tsx"
      [] lang = "ts" -> "ts"
      [] lang = "js" -> "js"
      [] lang = "json" -> "json"
      [] OTHER -> ""

\* SyntaxValidator.check
SyntaxCheck(proposed, active, allowed_paths) ==
    LET Empty(i) == Strip(proposed[i].content) = ""
        Mismatch(i) == ~EndsWith(proposed[i].file_path, ext_for_lang(proposed[i].language))
        Bad(i) == Empty(i) \/ Mismatch(i)
        k == FirstBad({i \in 1..Len(proposed) : Bad(i)})
    IN IF k = 0 THEN Pass
       ELSE IF Empty(k) THEN Fail("Empty content", proposed[k].file_path)
       ELSE Fail("Language/file mismatch", proposed[k].file_path)

\* mutant: the inverted test the code comments warn about
AuthorityCheck_Inverted(proposed, active, allowed_paths) ==
    LET Bad(i) == /\ proposed[i].file_path \in DOMAIN active
                  /\ active[proposed[i].file_path].source = USER
                  /\ is_allowed(proposed[i].file_path, allowed_paths)
        k == FirstBad({i \in 1..Len(proposed) : Bad(i)})
    IN IF k = 0 THEN Pass
       ELSE Fail("Unauthorized modification of user file", proposed[k].file_path)

\* mutant: a user_modified file is protected whatever the allowed paths are
AuthorityCheck_Strict(proposed, active, allowed_paths) ==
    LET Bad(i) == /\ proposed[i].file_path \in DOMAIN active
                  /\ active[proposed[i].file_path].source = USER
        k == FirstBad({i \in 1..Len(proposed) : Bad(i)})
    IN IF k = 0 THEN Pass
       ELSE Fail("Unauthorized modification of user file", proposed[k].file_path)

\* AuthorityValidator.check
AuthorityCheck(proposed, active, allowed_paths) ==
    LET Bad(i) == /\ proposed[i].file_path \in DOMAIN active
                  /\ active[proposed[i].file_path].source = USER
                  /\ ~is_allowed(proposed[i].file_path, allowed_paths)
        k == FirstBad({i \in 1..Len(proposed) : Bad(i)})
    IN IF k = 0 THEN Pass
       ELSE Fail("Unauthorized modification of user file", proposed[k].file_path)

\* mutant: only paths that already have an active artifact are scoped
ScopeCheck_ActiveOnly(proposed, active, allowed_paths) ==
    LET Bad(i) == /\ proposed[i].file_path \in DOMAIN active
                  /\ ~is_allowed(proposed[i].file_path, allowed_paths)
        k == FirstBad({i \in 1..Len(proposed) : Bad(i)})
    IN IF k = 0 THEN Pass
       ELSE Fail("Out-of-scope modification", proposed[k].file_path)

\* ScopeValidator.check
ScopeCheck(proposed, active, allowed_paths) ==
    LET Bad(i) == ~is_allowed(proposed[i].file_path, allowed_paths)
        k == FirstBad({i \in 1..Len(proposed) : Bad(i)})
    IN IF k = 0 THEN Pass
       ELSE Fail("Out-of-scope modification", proposed[k].file_path)

\* mutant: seen is never filled
ConsistencyCheck_NoSeen(proposed, active, allowed_paths) == Pass

\* ConsistencyValidator.check
ConsistencyCheck(proposed, active, allowed_paths) ==
    LET Bad(i) == \E j \in 1..(i - 1) : proposed[j].file_path = proposed[i].file_path
        k == FirstBad({i \in 1..Len(proposed) : Bad(i)})
    IN IF k = 0 THEN Pass
       ELSE Fail("Duplicate artifact", proposed[k].file_path)

\* active_lookup of Validator.validate: the last active artifact of each path
ActiveLookup(active_artifacts) ==
    LET idx(path) == {i \in 1..Len(active_artifacts) :
                         /\ active_artifacts[i].file_path = path
                         /\ active_artifacts[i].is_active}
        keys == {active_artifacts[i].file_path : i \in
                    {j \in 1..Len(active_artifacts) : active_artifacts[j].is_active}}
    IN [path \in keys |-> active_artifacts[MaxOf(idx(path))]]

\* mutant: the Scope rule is asked before the Authority rule
ValidateRules_ScopeFirst(proposed, active, allowed_paths) ==
    LET r1 == SyntaxCheck(proposed, active, allowed_paths)
        r2 == AuthorityCheck(proposed, active, allowed_paths)
        r3 == ScopeCheck(proposed, active, allowed_paths)
        r4 == ConsistencyCheck(proposed, active, allowed_paths)
    IN IF ~r1.ok THEN r1
       ELSE IF ~r3.ok THEN r3
       ELSE IF ~r2.ok THEN r2
       ELSE IF ~r4.ok THEN r4
       ELSE [Pass EXCEPT !.artifacts = proposed]

\* mutant: the loop leaves out the last rule
ValidateRules_SkipLast(proposed, active, allowed_paths) ==
    LET r1 == SyntaxCheck(proposed, active, allowed_paths)
        r2 == AuthorityCheck(proposed, active, allowed_paths)
        r3 == ScopeCheck(proposed, active, allowed_paths)
    IN IF ~r1.ok THEN r1
       ELSE IF ~r2.ok THEN r2
       ELSE IF ~r3.ok THEN r3
       ELSE [Pass EXCEPT !.artifacts = proposed]

\* the rule loop of Validator.validate on the lookup: the first failure is
\* returned, and ValidationResult(ok=True, artifacts=proposed) after the loop
ValidateRules(proposed, active, allowed_paths) ==
    LET r1 == SyntaxCheck(proposed, active, allowed_paths)
        r2 == AuthorityCheck(proposed, active, allowed_paths)
        r3 == ScopeCheck(proposed, active, allowed_paths)
        r4 == ConsistencyCheck(proposed, active, allowed_paths)
    IN IF ~r1.ok THEN r1
       ELSE IF ~r2.ok THEN r2
       ELSE IF ~r3.ok THEN r3
       ELSE IF ~r4.ok THEN r4
       ELSE [Pass EXCEPT !.artifacts = proposed]

\* Validator.validate
validate(proposed, active_artifacts, allowed_paths) ==
    ValidateRules(proposed, ActiveLookup(active_artifacts), allowed_paths)

(***************************************************************************)
(* Orchestrator helpers used to build committed artifacts                  *)
(***************************************************************************)
\* "<d>/" in file_path, for the directory names of the model
HasDir(file_path, d) == \E i \in 1..Len(file_path.dirs) : file_path.dirs[i] = d

\* Orchestrator._infer_type
infer_type(file_path) ==
    IF HasDir(file_path, "components") THEN "component"
    ELSE IF HasDir(file_path, "app") THEN "page"
    ELSE "config"

(***************************************************************************)
(* StateRAGManager.retrieve without a query                                *)
(***************************************************************************)
Ids(s) == {s[i].artifact_id : i \in 1..Len(s)}

\* mutant: a new dependency is added to result but not queued
RECURSIVE AddDeps_NotQueued(_, _, _, _)
AddDeps_NotQueued(deps, lookup, result, queue) ==
    IF deps = <<>> THEN [result |-> result, queue |-> queue]
    ELSE LET dep_id == Head(deps) IN
         IF dep_id \in {lookup[i].artifact_id : i \in 1..Len(lookup)}
            /\ dep_id \notin {result[i].artifact_id : i \in 1..Len(result)}
         THEN LET dep == lookup[CHOOSE i \in 1..Len(lookup) : lookup[i].artifact_id = dep_id]
              IN AddDeps_NotQueued(Tail(deps), lookup, Append(result, dep), queue)
         ELSE AddDeps_NotQueued(Tail(deps), lookup, result, queue)

\* the inner loop over current.dependencies: new active dependencies are added
\* to result and queued
RECURSIVE AddDeps(_, _, _, _)
AddDeps(deps, lookup, result, queue) ==
    IF deps = <<>> THEN [result |-> result, queue |-> queue]
    ELSE LET dep_id == Head(deps) IN
         IF dep_id \in Ids(lookup) /\ dep_id \notin Ids(result)
         THEN LET dep == lookup[CHOOSE i \in 1..Len(lookup) : lookup[i].artifact_id = dep_id]
              IN AddDeps(Tail(deps), lookup, Append(result, dep), Append(queue, dep))
         ELSE AddDeps(Tail(deps), lookup, result, queue)

\* the while loop over the queue, with the visited set
RECURSIVE ExpandLoop(_, _, _, _)
ExpandLoop(queue, visited, lookup, result) ==
    IF queue = <<>> THEN result
    ELSE LET current == Head(queue) IN
         IF current.artifact_id \in visited
         THEN ExpandLoop(Tail(queue), visited, lookup, result)
         ELSE LET r == AddDeps(current.dependencies, lookup, result, Tail(queue))
              IN ExpandLoop(r.queue, visited \cup {current.artifact_id}, lookup, r.result)

\* the locals before the while loop: result, visited, queue
StartWalk(seed) ==
    [pc |-> "loop", queue |-> seed, visited |-> {}, result |-> seed, expanded |-> <<>>]

\* mutant: no visited set and no test against result
Iterate_NoGuard(w, lookup) ==
    LET current == Head(w.queue)
        known == SelectSeq(current.dependencies, LAMBDA d : d \in Ids(lookup))
        deps == [k \in 1..Len(known) |->
                    lookup[CHOOSE i \in 1..Len(lookup) : lookup[i].artifact_id = known[k]]]
    IN [w EXCEPT !.queue = Tail(w.queue) \o deps,
                 !.expanded = Append(@, current.artifact_id)]

\* one iteration of the while loop; expanded lists the ids whose dependencies
\* were walked
Iterate(w, lookup) ==
    LET current == Head(w.queue) IN
    IF current.artifact_id \in w.visited
    THEN [w EXCEPT !.queue = Tail(w.queue)]
    ELSE LET r == AddDeps(current.dependencies, lookup, w.result, Tail(w.queue))
         IN [w EXCEPT !.queue = r.queue, !.result = r.result,
                      !.visited = @ \cup {current.artifact_id},
                      !.expanded = Append(@, current.artifact_id)]

\* StateRAGManager._expand_dependencies
expand_dependencies(arts, seed) ==
    ExpandLoop(seed, {}, SelectSeq(arts, LAMBDA a : a.is_active), seed)

\* insert x after the elements whose path is <= x's path (stable, ascending)
RECURSIVE InsertByPath(_, _)
InsertByPath(sorted, x) ==
    IF sorted = <<>> THEN <<x>>
    ELSE IF PathRank(Head(sorted).file_path) <= PathRank(x.file_path)
         THEN <<Head(sorted)>> \o InsertByPath(Tail(sorted), x)
         ELSE <<x>> \o sorted

\* artifacts.sort(key=lambda a: a.file_path)
RECURSIVE SortByPath(_, _)
SortByPath(s, acc) ==
    IF s = <<>> THEN acc
    ELSE SortByPath(Tail(s), InsertByPath(acc, Head(s)))

\* steps 1 to 4 of retrieve: active only, scope filter, file path filter,
\* dependency expansion; an empty scope or file_paths (None or []) does not
\* filter
Candidates(arts, scope, file_paths) ==
    LET active == SelectSeq(arts, LAMBDA a : a.is_active)
        scoped == IF scope # {} THEN SelectSeq(active, LAMBDA a : a.type \in scope)
                  ELSE active
        filtered == IF file_paths # {}
                    THEN SelectSeq(scoped, LAMBDA a : a.file_path \in file_paths)
                    ELSE scoped
    IN expand_dependencies(arts, filtered)

\* mutant: the candidates are cut to the limit in the order they were found
retrieve_Unsorted(arts, scope, file_paths, limit) ==
    Take(Candidates(arts, scope, file_paths), limit)

\* retrieve(scope, file_paths, limit) with user_query = None; an empty scope
\* or file_paths (None or []) does not filter
retrieve(arts, scope, file_paths, limit) ==
    LET active == SelectSeq(arts, LAMBDA a : a.is_active)
        scoped == IF scope # {} THEN SelectSeq(active, LAMBDA a : a.type \in scope)
                  ELSE active
        filtered == IF file_paths # {}
                    THEN SelectSeq(scoped, LAMBDA a : a.file_path \in file_paths)
                    ELSE scoped
        expanded == expand_dependencies(arts, filtered)
    IN Take(SortByPath(expanded, <<>>), limit)

(***************************************************************************)
(* StateRAGManager.retrieve with a query                                   *)
(* The embedding model and the index search are external: hits is the list *)
(* of the indexed artifact ids whose distance to the query is under the    *)
(* threshold, nearest first.                                               *)
(***************************************************************************)
\* the loop of _rank_with_faiss: next(a for a in artifacts if ...) raises
\* StopIteration for a hit that is not among the candidates
RECURSIVE RankHits(_, _, _)
RankHits(artifacts_, hits, ranked) ==
    IF hits = <<>> THEN [ok |-> TRUE, err |-> "", ranked |-> ranked]
    ELSE IF Head(hits) \notin Ids(artifacts_)
         THEN [ok |-> FALSE, err |-> "StopIteration", ranked |-> <<>>]
         ELSE RankHits(artifacts_, Tail(hits),
                  Append(ranked, artifacts_[CHOOSE i \in 1..Len(artifacts_) :
                                     artifacts_[i].artifact_id = Head(hits)]))

\* _rank_with_faiss; faiss_ids = <<>> stands for the index that is None
rank_with_faiss(artifacts_, faiss_ids, hits) ==
    IF faiss_ids = <<>> THEN [ok |-> TRUE, err |-> "", ranked |-> artifacts_]
    ELSE RankHits(artifacts_, hits, <<>>)

\* _build_faiss_index: the ids the index of a fresh handle is built over
faiss_ids_of(arts) ==
    LET active == SelectSeq(arts, LAMBDA a : a.is_active)
    IN [i \in 1..Len(active) |-> active[i].artifact_id]

\* mutant: an empty ranking is returned as it is
retrieve_ranked_NoFallback(arts, scope, file_paths, limit, faiss_ids, hits) ==
    LET r == rank_with_faiss(Candidates(arts, scope, file_paths), faiss_ids, hits)
    IN IF ~r.ok THEN [ok |-> FALSE, err |-> r.err, artifacts |-> <<>>]
       ELSE [ok |-> TRUE, err |-> "", artifacts |-> Take(r.ranked, limit)]

\* retrieve(scope, file_paths, limit, user_query) with a non-empty query
retrieve_ranked(arts, scope, file_paths, limit, faiss_ids, hits) ==
    LET candidates == Candidates(arts, scope, file_paths)
        r == rank_with_faiss(candidates, faiss_ids, hits)
        ranked == IF r.ranked = <<>>
                  THEN SelectSeq(candidates, LAMBDA a : a.type = "layout")
                  ELSE r.ranked
    IN IF ~r.ok THEN [ok |-> FALSE, err |-> r.err, artifacts |-> <<>>]
       ELSE [ok |-> TRUE, err |-> "", artifacts |-> Take(ranked, limit)]

(***************************************************************************)
(* parse_llm_output (backend/llm_output_parser.py)                         *)
(* The raw text is the sequence of its "FILE:" blocks: the path written on *)
(* the marker line and the text up to the next marker line.                *)
(***************************************************************************)
\* _infer_language
infer_language(file_path) ==
    LET e == Lower(file_path.ext) IN
    CASE e = "tsx" -> "tsx"
      [] e = "ts" -> "ts"
      [] e = "jsx" -> "js"
      [] e = "js" -> "js"
      [] e = "css" -> "css"
      [] e = "json" -> "json"
      [] e = "html" -> "html"
      [] OTHER -> "tsx"

\* Normalize JSX -> TSX
JsxToTsx(file_path) ==
    IF file_path.ext = "jsx" THEN [file_path EXCEPT !.ext = "tsx"] ELSE file_path

\* the lines of the content atoms: the first non-blank line and the text after it
first_line(content) ==
    CASE content = "b.css\nc2" -> "b.css"
      [] content = " " -> ""
      [] OTHER -> content

after_first_line(content) ==
    CASE content = "b.css\nc2" -> "c2"
      [] OTHER -> ""

\* a line of text taken as a file path
PathOfLine(line) ==
    CASE line = "b.css" -> pB
      [] OTHER -> P(<<>>, line, "")

\* FILE_HEADER_REGEX = ^FILE:\s*(.+)$ matched at the head of blocks: \s* also
\* runs over line ends, so a header without a path captures the next non-blank
\* line of the text, which is the first line of its content or, when the content
\* is blank, the header line of the next block (no longer a match of its own);
\* with nothing non-blank after it the pattern captures white space
HeaderMatch(blocks) ==
    LET b == Head(blocks) IN
    IF b.path # EmptyPath
    THEN [file_path |-> b.path, content |-> b.content, rest |-> Tail(blocks)]
    ELSE IF Strip(b.content) # ""
    THEN [file_path |-> PathOfLine(first_line(b.content)),
          content |-> after_first_line(b.content), rest |-> Tail(blocks)]
    ELSE IF Tail(blocks) # <<>>
    THEN [file_path |-> HeaderText(blocks[2].path), content |-> blocks[2].content,
          rest |-> Tail(Tail(blocks))]
    ELSE [file_path |-> EmptyPath, content |-> "", rest |-> <<>>]

RECURSIVE ParseBlocks(_, _)
ParseBlocks(blocks, acc) ==
    IF blocks = <<>> THEN [ok |-> TRUE, err |-> "", artifacts |-> acc]
    ELSE LET match == HeaderMatch(blocks)
             file_path == JsxToTsx(match.file_path)
             content == Strip(match.content)
         IN IF file_path = EmptyPath
            THEN [ok |-> FALSE, err |-> "Empty file path", artifacts |-> <<>>]
            ELSE IF content = ""
            THEN [ok |-> FALSE, err |-> "Empty content", artifacts |-> <<>>]
            ELSE ParseBlocks(match.rest,
                     Append(acc, ProposedArtifact(file_path, content,
                                                  infer_language(file_path))))

\* parse_llm_output
parse_llm_output(raw) ==
    IF raw = <<>>
    THEN [ok |-> FALSE, err |-> "No FILE headers", artifacts |-> <<>>]
    ELSE ParseBlocks(raw, <<>>)

(***************************************************************************)
(* Orchestrator.handle_request (backend/orchestrator.py)                   *)
(***************************************************************************)
\* mutant: the pre-check never rejects
PreValidateFails_Never(active_artifacts, allowed_paths) == FALSE

\* Orchestrator._pre_validate_authority raises ValueError
PreValidateFails(active_artifacts, allowed_paths) ==
    /\ Star \notin allowed_paths
    /\ \E i \in 1..Len(active_artifacts) :
          /\ active_artifacts[i].source = USER
          /\ active_artifacts[i].file_path \notin allowed_paths

\* old = next((a for a in active_artifacts if a.file_path == p.file_path), None)
OldOf(active_artifacts, file_path) ==
    LET hits == {i \in 1..Len(active_artifacts) :
                    active_artifacts[i].file_path = file_path}
    IN IF hits = {} THEN NoArt ELSE active_artifacts[FirstBad(hits)]

\* the ownership tag of the new artifact
SourceFor(old) == IF old # NoArt /\ old.source = USER THEN USER ELSE AI_MOD

\* 7. Commit validated artifacts: the loop stops at the first exception
RECURSIVE CommitEach(_, _, _, _, _, _)
CommitEach(arts, file, id, active_artifacts, proposed, committed) ==
    IF proposed = <<>>
    THEN [ok |-> TRUE, err |-> "", artifacts |-> arts, disk |-> file, nextId |-> id,
          committed |-> committed]
    ELSE LET p == Head(proposed)
             source == SourceFor(OldOf(active_artifacts, p.file_path))
         IN IF ArtifactInvalid(p.file_path, p.content, p.language)
            THEN [ok |-> FALSE, err |-> "artifact", artifacts |-> arts, disk |-> file,
                  nextId |-> id, committed |-> committed]
            ELSE LET r == commit(arts, file,
                                 Artifact(id, infer_type(p.file_path), p.file_path,
                                          p.content, p.language, source, <<>>))
                 IN IF ~r.ok
                    THEN [ok |-> FALSE, err |-> r.err, artifacts |-> arts,
                          disk |-> file, nextId |-> id, committed |-> committed]
                    ELSE CommitEach(r.artifacts, r.disk, id + 1, active_artifacts,
                                    Tail(proposed), Append(committed, r.out))

\* the steps of handle_request in the order of its statements: the steps up to
\* the generator call, and each later step
StepsToGenerator ==
    <<"retrieve_state", "pre_validate", "retrieve_advisory", "build_context",
      "invoke_generator">>

\* mutant: a failed validation does not stop the request, the parsed batch is
\* committed whatever the rules said
handle_request_NoValidationGate(arts, file, id, allowed_paths, gen) ==
    LET file_paths == IF Star \in allowed_paths THEN {} ELSE allowed_paths
        active_artifacts == retrieve(arts, {}, file_paths, RetrieveLimit)
        stop(phase, err, proposed, trace) ==
            [phase |-> phase, ok |-> FALSE, err |-> err, artifacts |-> arts,
             disk |-> file, nextId |-> id, active_artifacts |-> active_artifacts,
             proposed |-> proposed, committed |-> <<>>, trace |-> trace]
    IN IF PreValidateFails(active_artifacts, allowed_paths)
       THEN stop("pre_validate", "authority", <<>>, SubSeq(StepsToGenerator, 1, 2))
       ELSE IF ~gen.ok THEN stop("generate", "llm", <<>>, StepsToGenerator)
       ELSE LET parsed == parse_llm_output(gen.raw) IN
            IF ~parsed.ok
            THEN stop("parse", parsed.err, <<>>, StepsToGenerator \o <<"parse">>)
            ELSE LET c == CommitEach(arts, file, id, active_artifacts,
                                     parsed.artifacts, <<>>)
                 IN [phase |-> IF c.ok THEN "done" ELSE "commit", ok |-> c.ok,
                     err |-> c.err, artifacts |-> c.artifacts, disk |-> c.disk,
                     nextId |-> c.nextId, active_artifacts |-> active_artifacts,
                     proposed |-> parsed.artifacts, committed |-> c.committed,
                     trace |-> StepsToGenerator \o <<"parse", "validate", "commit_each">>]

\* the outcome of handle_request(user_request, allowed_paths) when the external
\* generator answers gen: a failure, or the text gen.raw; trace lists the steps
\* the call went through
handle_request(arts, file, id, allowed_paths, gen) ==
    LET file_paths == IF Star \in allowed_paths THEN {} ELSE allowed_paths
        active_artifacts == retrieve(arts, {}, file_paths, RetrieveLimit)
        stop(phase, err, proposed, trace) ==
            [phase |-> phase, ok |-> FALSE, err |-> err, artifacts |-> arts,
             disk |-> file, nextId |-> id, active_artifacts |-> active_artifacts,
             proposed |-> proposed, committed |-> <<>>, trace |-> trace]
    IN IF PreValidateFails(active_artifacts, allowed_paths)
       THEN stop("pre_validate", "authority", <<>>, SubSeq(StepsToGenerator, 1, 2))
       ELSE IF ~gen.ok THEN stop("generate", "llm", <<>>, StepsToGenerator)
       ELSE LET parsed == parse_llm_output(gen.raw) IN
            IF ~parsed.ok
            THEN stop("parse", parsed.err, <<>>, StepsToGenerator \o <<"parse">>)
            ELSE LET result == validate(parsed.artifacts, active_artifacts, allowed_paths) IN
                 IF ~result.ok
                 THEN stop("validate", result.reason, parsed.artifacts,
                           StepsToGenerator \o <<"parse", "validate">>)
                 ELSE LET c == CommitEach(arts, file, id, active_artifacts,
                                          result.artifacts, <<>>)
                      IN [phase |-> IF c.ok THEN "done" ELSE "commit", ok |-> c.ok,
                          err |-> c.err, artifacts |-> c.artifacts, disk |-> c.disk,
                          nextId |-> c.nextId, active_artifacts |-> active_artifacts,
                          proposed |-> parsed.artifacts, committed |-> c.committed,
                          trace |-> StepsToGenerator
                                    \o <<"parse", "validate", "commit_each">>]

(***************************************************************************)
(* Store-level specification: one handle on an empty project               *)
(***************************************************************************)
NoLast == [op |-> "init", ok |-> TRUE, err |-> "", cand |-> NoArt, out |-> NoArt,
           keep |-> 0, cleaned |-> FALSE, removed |-> 0]
NoReq == [phase |-> "none", ok |-> TRUE, err |-> "", allowed_paths |-> {},
          gen |-> [ok |-> FALSE, raw |-> <<>>],
          active_artifacts |-> <<>>, proposed |-> <<>>, committed |-> <<>>,
          trace |-> <<>>]
NoVin == [proposed |-> <<>>, active |-> <<>>, allowed_paths |-> {}]
NoVout == [rule |-> "none", ok |-> TRUE, reason |-> "", path |-> EmptyPath,
           artifacts |-> None]

\* the handles of concurrent requests, none of them constructed yet
Handles == 1..MaxHandles
NoHandle == [pc |-> "new", artifacts |-> <<>>, committed |-> <<>>, torn |-> FALSE]
NoFile == [status |-> "ok", stable |-> <<>>]
NoWalk == [pc |-> "idle", queue |-> <<>>, visited |-> {}, result |-> <<>>,
           expanded |-> <<>>]

\* no artifacts.json yet, no StateRAGManager constructed, no generation call made
NoStateFile == [kind |-> "missing", doc |-> [t |-> "null"], origin |-> "none",
                persisted |-> <<>>]
NoMgr == [pc |-> "none", op |-> "none", raised |-> "", embedder |-> FALSE,
          faiss_index |-> FALSE, faiss_ids |-> <<>>, commits |-> 0, builds |-> 0,
          queried |-> FALSE]
NoOuter == [pc |-> "idle", attempt |-> 0, seen |-> <<>>, text |-> "",
            error |-> [kind |-> "", retries |-> 0]]
NoGem == [pc |-> "idle", attempt |-> 0, calls |-> 0, wait_time |-> 0, waits |-> <<>>,
          seen |-> <<>>, text |-> "", error |-> [kind |-> "", retries |-> 0],
          outer |-> NoOuter]

\* ---------------------------------------------------------------------------
\* project_store.py: the list of projects in projects.json
\* ---------------------------------------------------------------------------
MaxCallers == 2      \* project_store calls running at the same time
Callers == 1 .. MaxCallers
SharedProject == MaxCallers + 1   \* the project_id of a project created earlier
ProjectOps == {"create", "update", "delete"}

\* One entry of the list; name and template do not take part and are left out.
ProjectRecord(project_id, now) ==
    [project_id |-> project_id, created_at |-> now, updated_at |-> now]

NoProjectsFile == [exists |-> FALSE, projects |-> <<>>]
NoCall == [pc |-> "idle", op |-> "", project_id |-> 0, now |-> 0,
           projects |-> <<>>, result |-> FALSE]
NoCalls == [c \in Callers |-> NoCall]

Init ==
    /\ artifacts = <<>>
    /\ disk = <<>>
    /\ nextId = 1
    /\ ncommits = [p \in StoredPaths |-> 0]
    /\ last = NoLast
    /\ req = NoReq
    /\ nrequests = 0
    /\ vin = NoVin
    /\ vout = NoVout
    /\ handles = [h \in Handles |-> NoHandle]
    /\ fstate = NoFile
    /\ walk = NoWalk
    /\ state_file = NoStateFile
    /\ mgr = NoMgr
    /\ gem = NoGem
    /\ projects_file = NoProjectsFile
    /\ store_calls = NoCalls

RECURSIVE SumOver(_, _)
SumOver(f, S) ==
    IF S = {} THEN 0
    ELSE LET x == CHOOSE y \in S : TRUE IN f[x] + SumOver(f, S \ {x})

Accepted == SumOver(ncommits, StoredPaths)

\* languages of directly committed artifacts, by extension
CandLanguage(file_path) == Lower(file_path.ext)

\* StateRAGManager.commit(new_artifact), new_artifact a freshly built Artifact
Commit(file_path, content, source, deps, max_accepted) ==
    \E new_artifact \in {Artifact(nextId, infer_type(file_path), file_path, content,
                                  CandLanguage(file_path), source, deps)} :
    \E r \in {commit(artifacts, disk, new_artifact)} :
        /\ ~ArtifactInvalid(file_path, content, CandLanguage(file_path))
        /\ r.ok => Accepted < max_accepted
        /\ artifacts' = r.artifacts
        /\ disk' = r.disk
        /\ nextId' = IF r.ok THEN nextId + 1 ELSE nextId
        /\ ncommits' = IF r.ok
                       THEN [ncommits EXCEPT ![new_artifact.file_path] = @ + 1]
                       ELSE ncommits
        /\ last' = [op |-> "commit", ok |-> r.ok, err |-> r.err,
                    cand |-> new_artifact, out |-> r.out,
                    keep |-> IF r.cleaned THEN KeepVersions ELSE 0,
                    cleaned |-> r.cleaned, removed |-> r.removed]
        /\ UNCHANGED <<req, nrequests, vin, vout, handles, fstate, walk,
                   state_file, mgr, gem,
                   projects_file, store_calls>>

\* keep_versions arguments of direct cleanup calls
KeepChoices == {0, 1, KeepVersions}

\* StateRAGManager.cleanup_old_versions(keep_versions)
Cleanup(keep_versions) ==
    \E r \in {cleanup_old_versions(artifacts, disk, keep_versions)} :
        /\ artifacts' = r.artifacts
        /\ disk' = r.disk
        /\ last' = [op |-> "cleanup", ok |-> TRUE, err |-> "", cand |-> NoArt,
                    out |-> NoArt, keep |-> keep_versions, cleaned |-> TRUE,
                    removed |-> r.removed]
        /\ UNCHANGED <<nextId, ncommits, req, nrequests, vin, vout, handles, fstate, walk,
                   state_file, mgr, gem,
                   projects_file, store_calls>>

CommitStep ==
    \E file_path \in CandPaths, content \in CandContents, source \in ArtifactSource :
        Commit(file_path, content, source, <<>>, MaxCommits)

CleanupStep == \E keep_versions \in KeepChoices : Cleanup(keep_versions)

Next == CommitStep \/ CleanupStep

Spec == Init /\ [][Next]_vars

(***************************************************************************)
(* Retention specification: a long-running handle on an empty project that *)
(* commits generated files to two paths and cleans up                      *)
(***************************************************************************)
LongCommitStep ==
    \E file_path \in CandPaths, content \in CandContents :
        Commit(file_path, content, AI_MOD, <<>>, MaxLong)

NextRetention == LongCommitStep \/ CleanupStep

SpecRetention == Init /\ [][NextRetention]_vars

(***************************************************************************)
(* Request-level specification: user files are committed directly (as the  *)
(* project scaffold does) and generation requests run on the same handle   *)
(***************************************************************************)
RECURSIVE SeqsUpTo(_, _)
SeqsUpTo(S, n) ==
    IF n = 0 THEN {<<>>}
    ELSE LET shorter == SeqsUpTo(S, n - 1)
         IN shorter \cup {Append(q, x) : q \in {r \in shorter : Len(r) = n - 1}, x \in S}

\* allowed_paths arguments of a request
AllowedChoices == SUBSET {Star, pA, pDotA, pB}

Block(path, content) == [path |-> path, content |-> content]

\* the "FILE:" blocks a generator response is made of
GenBlocks ==
    {Block(p, "c2") : p \in GenPaths}
    \cup {Block(pA, " "), Block(EmptyPath, " "), Block(EmptyPath, "b.css\nc2")}

\* the external generator fails, or answers a text of at most MaxBatch blocks
GenOutcomes ==
    {[ok |-> FALSE, raw |-> <<>>]}
    \cup {[ok |-> TRUE, raw |-> raw] : raw \in SeqsUpTo(GenBlocks, MaxBatch)}

RECURSIVE CountPath(_, _)
CountPath(committed, file_path) ==
    IF committed = <<>> THEN 0
    ELSE (IF Head(committed).file_path = file_path THEN 1 ELSE 0)
         + CountPath(Tail(committed), file_path)

\* Orchestrator.handle_request(user_request, allowed_paths)
HandleRequest(allowed_paths, gen) ==
    \E r \in {handle_request(artifacts, disk, nextId, allowed_paths, gen)} :
        /\ Accepted + Len(r.committed) <= MaxCommits
        /\ artifacts' = r.artifacts
        /\ disk' = r.disk
        /\ nextId' = r.nextId
        /\ ncommits' = [p \in StoredPaths |-> ncommits[p] + CountPath(r.committed, p)]
        /\ last' = [NoLast EXCEPT !.op = "request", !.ok = r.ok, !.err = r.err]
        /\ req' = [phase |-> r.phase, ok |-> r.ok, err |-> r.err,
                   allowed_paths |-> allowed_paths, gen |-> gen,
                   active_artifacts |-> r.active_artifacts,
                   proposed |-> r.proposed, committed |-> r.committed,
                   trace |-> r.trace]
        /\ nrequests' = nrequests + 1
        /\ UNCHANGED <<vin, vout, handles, fstate, walk,
                   state_file, mgr, gem,
                   projects_file, store_calls>>

\* a user file committed outside a generation request
SeedStep ==
    \E file_path \in CandPaths, content \in CandContents :
        Commit(file_path, content, USER, <<>>, MaxCommits)

\* a generated stylesheet committed with a dependency on the first artifact of
\* the project
DependentStep ==
    \E content \in CandContents : Commit(pB, content, AI_MOD, <<1>>, MaxCommits)

RequestStep ==
    /\ nrequests < MaxRequests
    /\ \E allowed_paths \in AllowedChoices, gen \in GenOutcomes :
          HandleRequest(allowed_paths, gen)

NextRequest == SeedStep \/ DependentStep \/ RequestStep

SpecRequest == Init /\ [][NextRequest]_vars

(***************************************************************************)
(* Rule-level specification: the rules applied to bounded inputs           *)
(***************************************************************************)
\* proposed artifacts handed to the rules
RuleProposals ==
    {ProposedArtifact(pA, "c2", "tsx"), ProposedArtifact(pDotA, "c2", "tsx"),
     ProposedArtifact(pB, "c2", "css"), ProposedArtifact(pHtml, "c2", "html"),
     ProposedArtifact(pA, " ", "tsx"), ProposedArtifact(pB, "c1", "tsx"),
     ProposedArtifact(pA, "c2", "css"), ProposedArtifact(pB, "c2", "json")}

\* retrieved active sets: each stored path absent, user_modified or ai_modified
RuleActiveSets ==
    {LET a == IF f[pA] = "none" THEN <<>>
              ELSE <<[Artifact(1, "config", pA, "c1", "tsx", f[pA], <<>>)
                         EXCEPT !.version = 2]>>
         b == IF f[pB] = "none" THEN <<>>
              ELSE <<Artifact(2, "config", pB, "c1", "css", f[pB], <<>>)>>
     IN a \o b : f \in [{pA, pB} -> {"none", USER, AI_MOD}]}

InitRules ==
    /\ artifacts = <<>>
    /\ disk = <<>>
    /\ nextId = 1
    /\ ncommits = [p \in StoredPaths |-> 0]
    /\ last = NoLast
    /\ req = NoReq
    /\ nrequests = 0
    /\ vout = NoVout
    /\ handles = [h \in Handles |-> NoHandle]
    /\ fstate = NoFile
    /\ walk = NoWalk
    /\ state_file = NoStateFile
    /\ mgr = NoMgr
    /\ gem = NoGem
    /\ projects_file = NoProjectsFile
    /\ store_calls = NoCalls
    /\ vin \in [proposed : SeqsUpTo(RuleProposals, MaxBatch),
                active : RuleActiveSets,
                allowed_paths : AllowedChoices]

RuleResult(rule, r) ==
    [rule |-> rule, ok |-> r.ok, reason |-> r.reason, path |-> r.path,
     artifacts |-> r.artifacts]

CheckSyntax ==
    /\ vout' = RuleResult("syntax",
                 SyntaxCheck(vin.proposed, ActiveLookup(vin.active), vin.allowed_paths))
    /\ UNCHANGED <<artifacts, disk, nextId, ncommits, last, req, nrequests, vin,
                   handles, fstate, walk,
                   state_file, mgr, gem,
                   projects_file, store_calls>>

CheckAuthority ==
    /\ vout' = RuleResult("authority",
                 AuthorityCheck(vin.proposed, ActiveLookup(vin.active), vin.allowed_paths))
    /\ UNCHANGED <<artifacts, disk, nextId, ncommits, last, req, nrequests, vin,
                   handles, fstate, walk,
                   state_file, mgr, gem,
                   projects_file, store_calls>>

CheckScope ==
    /\ vout' = RuleResult("scope",
                 ScopeCheck(vin.proposed, ActiveLookup(vin.active), vin.allowed_paths))
    /\ UNCHANGED <<artifacts, disk, nextId, ncommits, last, req, nrequests, vin,
                   handles, fstate, walk,
                   state_file, mgr, gem,
                   projects_file, store_calls>>

CheckConsistency ==
    /\ vout' = RuleResult("consistency",
                 ConsistencyCheck(vin.proposed, ActiveLookup(vin.active), vin.allowed_paths))
    /\ UNCHANGED <<artifacts, disk, nextId, ncommits, last, req, nrequests, vin,
                   handles, fstate, walk,
                   state_file, mgr, gem,
                   projects_file, store_calls>>

RunValidate ==
    /\ vout' = RuleResult("validate",
                 validate(vin.proposed, vin.active, vin.allowed_paths))
    /\ UNCHANGED <<artifacts, disk, nextId, ncommits, last, req, nrequests, vin,
                   handles, fstate, walk,
                   state_file, mgr, gem,
                   projects_file, store_calls>>

NextRules ==
    CheckSyntax \/ CheckAuthority \/ CheckScope \/ CheckConsistency \/ RunValidate

SpecRules == InitRules /\ [][NextRules]_vars

(***************************************************************************)
(* Expansion specification: _expand_dependencies, one loop iteration at a  *)
(* time, on stores whose dependency references form chains, cycles and     *)
(* self-references and name inactive or missing artifacts                  *)
(***************************************************************************)
MissingId == 9

\* dependency lists of the stored artifacts
DepChoices == {<<>>, <<1>>, <<2>>, <<3>>, <<2, 3>>, <<4, MissingId>>}

\* "a.tsx" in two versions (4: superseded, 1: active), "b.css" and "src/c.ts"
DepStore(d1, d2, d3) ==
    <<[Artifact(4, "config", pA, "c1", "tsx", AI_MOD, <<3>>)
          EXCEPT !.is_active = FALSE],
      [Artifact(1, "config", pA, "c2", "tsx", AI_MOD, d1) EXCEPT !.version = 2],
      Artifact(2, "config", pB, "c1", "css", AI_MOD, d2),
      Artifact(3, "config", pC, "c1", "ts", USER, d3)>>

DepStores == {DepStore(d1, d2, d3) : d1, d2, d3 \in DepChoices}

\* the sublists of a list, in list order
RECURSIVE SubLists(_)
SubLists(list) ==
    IF list = <<>> THEN {<<>>}
    ELSE LET rest == SubLists(Tail(list))
         IN rest \cup {<<Head(list)>> \o r : r \in rest}

InitExpand ==
    /\ artifacts = <<>>
    /\ disk = <<>>
    /\ nextId = 1
    /\ ncommits = [p \in StoredPaths |-> 0]
    /\ last = NoLast
    /\ req = NoReq
    /\ nrequests = 0
    /\ vout = NoVout
    /\ handles = [h \in Handles |-> NoHandle]
    /\ fstate = NoFile
    /\ walk = NoWalk
    /\ state_file = NoStateFile
    /\ mgr = NoMgr
    /\ gem = NoGem
    /\ projects_file = NoProjectsFile
    /\ store_calls = NoCalls
    /\ \E arts \in DepStores :
       \E seed \in SubLists(SelectSeq(arts, LAMBDA a : a.is_active)) :
          vin = [arts |-> arts, seed |-> seed]

\* _expand_dependencies(artifacts) is entered
ExpandStart ==
    /\ walk.pc = "idle"
    /\ walk' = StartWalk(vin.seed)
    /\ UNCHANGED <<artifacts, disk, nextId, ncommits, last, req, nrequests, vin, vout,
                   handles, fstate,
                   state_file, mgr, gem,
                   projects_file, store_calls>>

\* while queue: one iteration
ExpandPop ==
    /\ walk.pc = "loop"
    /\ walk.queue # <<>>
    /\ walk' = Iterate(walk, SelectSeq(vin.arts, LAMBDA a : a.is_active))
    /\ UNCHANGED <<artifacts, disk, nextId, ncommits, last, req, nrequests, vin, vout,
                   handles, fstate,
                   state_file, mgr, gem,
                   projects_file, store_calls>>

\* the queue is empty: return list(result.values())
ExpandReturn ==
    /\ walk.pc = "loop"
    /\ walk.queue = <<>>
    /\ walk' = [walk EXCEPT !.pc = "done"]
    /\ UNCHANGED <<artifacts, disk, nextId, ncommits, last, req, nrequests, vin, vout,
                   handles, fstate,
                   state_file, mgr, gem,
                   projects_file, store_calls>>

NextExpand == ExpandStart \/ ExpandPop \/ ExpandReturn

SpecExpand == InitExpand /\ [][NextExpand]_vars

\* the loop runs on the thread of the caller: it is never suspended for ever
SpecExpandLive == SpecExpand /\ WF_vars(NextExpand)

(***************************************************************************)
(* Retrieval specification: retrieve on a fresh handle, without and with a *)
(* query, on stores with dependencies and artifact types                   *)
(***************************************************************************)
RetrieveDeps == {<<>>, <<3>>, <<2, 3>>}

\* the types of "a.tsx", "b.css" and "src/c.ts"
RetrieveTypes ==
    {<<"layout", "layout", "config">>, <<"layout", "component", "layout">>,
     <<"config", "page", "component">>}

RetrieveStores ==
    {[DepStore(d1, d2, d3) EXCEPT ![2].type = t[1], ![3].type = t[2], ![4].type = t[3]] :
        d1 \in RetrieveDeps, d2 \in RetrieveDeps, d3 \in RetrieveDeps, t \in RetrieveTypes}

ScopeChoices == {{}, {"layout"}, {"config", "component"}}
FilePathChoices == {{}, {pA}, {pB, pC}, {pDotA}}
LimitChoices == {0, 1, 2, RetrieveLimit}
HitChoices == {<<>>, <<2>>, <<3, 1>>}

InitRetrieve ==
    /\ artifacts = <<>>
    /\ disk = <<>>
    /\ nextId = 1
    /\ ncommits = [p \in StoredPaths |-> 0]
    /\ last = NoLast
    /\ req = NoReq
    /\ nrequests = 0
    /\ vout = NoVout
    /\ handles = [h \in Handles |-> NoHandle]
    /\ fstate = NoFile
    /\ walk = NoWalk
    /\ state_file = NoStateFile
    /\ mgr = NoMgr
    /\ gem = NoGem
    /\ projects_file = NoProjectsFile
    /\ store_calls = NoCalls
    /\ vin \in [arts : RetrieveStores, scope : ScopeChoices,
                file_paths : FilePathChoices, limit : LimitChoices, hits : HitChoices]

\* retrieve(scope, file_paths, limit)
Retrieve ==
    /\ vout' = [rule |-> "retrieve", ok |-> TRUE, reason |-> "", path |-> EmptyPath,
                artifacts |-> retrieve(vin.arts, vin.scope, vin.file_paths, vin.limit)]
    /\ UNCHANGED <<artifacts, disk, nextId, ncommits, last, req, nrequests, vin,
                   handles, fstate, walk,
                   state_file, mgr, gem,
                   projects_file, store_calls>>

\* retrieve(scope, file_paths, limit, user_query) on a handle that has not
\* ranked before: the index is built over the active artifacts
RetrieveQuery ==
    /\ \E r \in {retrieve_ranked(vin.arts, vin.scope, vin.file_paths, vin.limit,
                                  faiss_ids_of(vin.arts), vin.hits)} :
          vout' = [rule |-> "retrieve_query", ok |-> r.ok, reason |-> r.err,
                   path |-> EmptyPath, artifacts |-> r.artifacts]
    /\ UNCHANGED <<artifacts, disk, nextId, ncommits, last, req, nrequests, vin,
                   handles, fstate, walk,
                   state_file, mgr, gem,
                   projects_file, store_calls>>

NextRetrieve == Retrieve \/ RetrieveQuery

SpecRetrieve == InitRetrieve /\ [][NextRetrieve]_vars

(***************************************************************************)
(* Concurrent specification: every generation request builds its own       *)
(* StateRAGManager on the project (api_v2.generate_code), requests run in  *)
(* parallel, and no lock is taken around _load, commit or _persist.        *)
(* _persist is two steps: open(path, "w") truncates the file, json.dump    *)
(* and the close put the text of the handle's list at offset 0.            *)
(***************************************************************************)
\* _load: the list a handle builds from the file; an empty text leaves the
\* list empty and a text that is no JSON document resets it to []
load(file, status) == IF status = "ok" THEN file ELSE <<>>

\* the handles between open(path, "w") and the close of _persist
Writers == {h \in Handles : handles[h].pc = "writing"}

\* the file after json.dump and close wrote the text of mine at offset 0: a
\* longer text that another writer left in the file keeps its tail
persist_close(file, mine) ==
    IF Len(file) > Len(mine)
    THEN [disk |-> file, status |-> "corrupt"]
    ELSE [disk |-> mine, status |-> "ok"]

ConcAccepted == SumOver([h \in Handles |-> Len(handles[h].committed)], Handles)

\* StateRAGManager(project_id): __init__ and _load
OpenHandle(h) ==
    /\ handles[h].pc = "new"
    /\ \E loaded \in {load(disk, fstate.status)} :
          handles' = [handles EXCEPT ![h] =
              [pc |-> "ready", artifacts |-> loaded, committed |-> <<>>,
               torn |-> loaded \notin ({fstate.stable}
                                       \cup {handles[w].artifacts : w \in Writers})]]
    /\ UNCHANGED <<artifacts, disk, nextId, ncommits, last, req, nrequests, vin, vout,
                   fstate, walk,
                   state_file, mgr, gem,
                   projects_file, store_calls>>

\* commit(new_artifact) up to the open(path, "w") of _persist
BeginCommit(h, file_path, content, source) ==
    /\ handles[h].pc = "ready"
    /\ \E new_artifact \in {Artifact(nextId, infer_type(file_path), file_path, content,
                                      CandLanguage(file_path), source, <<>>)} :
       \E active_versions \in {ActiveVersions(handles[h].artifacts, file_path)} :
          IF AuthorityViolation(active_versions, new_artifact)
          THEN /\ last' = [op |-> "commit", ok |-> FALSE, err |-> "authority",
                           cand |-> new_artifact, out |-> NoArt, keep |-> 0,
                           cleaned |-> FALSE, removed |-> 0]
               /\ UNCHANGED <<handles, disk, fstate, nextId>>
          ELSE \E committed \in {[new_artifact EXCEPT
                                      !.version = NewVersion(active_versions),
                                      !.is_active = TRUE]} :
               /\ ConcAccepted < MaxConc
               /\ handles' = [handles EXCEPT ![h] =
                      [@ EXCEPT !.pc = "writing",
                                !.artifacts = Append(Supersede(@, file_path), committed),
                                !.committed = Append(@, committed)]]
               /\ disk' = <<>>
               /\ fstate' = [fstate EXCEPT !.status = "partial"]
               /\ nextId' = nextId + 1
               /\ last' = [op |-> "commit", ok |-> TRUE, err |-> "",
                           cand |-> new_artifact, out |-> committed, keep |-> 0,
                           cleaned |-> FALSE, removed |-> 0]
    /\ UNCHANGED <<artifacts, ncommits, req, nrequests, vin, vout, walk,
                   state_file, mgr, gem,
                   projects_file, store_calls>>

\* commit(new_artifact) from json.dump on: the close of _persist, then the
\* periodic cleanup, whose own _persist opens the file again
EndCommit(h) ==
    /\ handles[h].pc = "writing"
    /\ \E mine \in {handles[h].artifacts} :
       \E w \in {persist_close(disk, mine)} :
       \E c \in {IF CleanupDue(mine)
                  THEN cleanup_old_versions(mine, mine, KeepVersions).artifacts
                  ELSE mine} :
          IF Len(c) < Len(mine)
          THEN /\ handles' = [handles EXCEPT ![h].artifacts = c]
               /\ disk' = <<>>
               /\ fstate' = [status |-> "partial",
                             stable |-> IF w.status = "ok" THEN mine ELSE fstate.stable]
          ELSE /\ handles' = [handles EXCEPT ![h].artifacts = c, ![h].pc = "ready"]
               /\ disk' = w.disk
               /\ fstate' = [status |-> w.status,
                             stable |-> IF w.status = "ok" THEN mine ELSE fstate.stable]
    /\ UNCHANGED <<artifacts, nextId, ncommits, last, req, nrequests, vin, vout, walk,
                   state_file, mgr, gem,
                   projects_file, store_calls>>

OpenStep == \E h \in Handles : OpenHandle(h)

BeginCommitStep ==
    \E h \in Handles, file_path \in CandPaths, content \in CandContents,
       source \in {USER, AI_MOD} :
        BeginCommit(h, file_path, content, source)

EndCommitStep == \E h \in Handles : EndCommit(h)

NextConcurrent == OpenStep \/ BeginCommitStep \/ EndCommitStep

SpecConcurrent == Init /\ [][NextConcurrent]_vars

(***************************************************************************)
(* Properties of the store                                                 *)
(***************************************************************************)
ActiveAt(arts, file_path) ==
    {i \in 1..Len(arts) : arts[i].file_path = file_path /\ arts[i].is_active}

UserOwned(arts, file_path) ==
    \E i \in ActiveAt(arts, file_path) : arts[i].source = USER

\* C1: starting from the empty store, after any sequence of commit and
\* cleanup_old_versions calls at most one artifact per file path is active.
C1_OneActivePerPath ==
    \A p \in StoredPaths : Cardinality(ActiveAt(artifacts, p)) <= 1

\* the tenth commit has triggered the periodic cleanup, which removed old
\* versions and regrouped the list, and a path holds both kinds of version
C1_Witness ==
    /\ last.op = "commit"
    /\ last.ok
    /\ Accepted = CleanupEvery
    /\ Len(artifacts) < CleanupEvery
    /\ artifacts[Len(artifacts)] # last.out
    /\ \E i, j \in 1..Len(artifacts) :
          /\ artifacts[i].file_path = artifacts[j].file_path
          /\ artifacts[i].is_active
          /\ ~artifacts[j].is_active

\* C2: a commit whose candidate is not user_modified, on a path whose active
\* artifact is user_modified, is rejected with the authority error.
C2_NonUserRejected ==
    [][(/\ last'.op = "commit"
        /\ last'.cand.source # USER
        /\ UserOwned(artifacts, last'.cand.file_path))
       => (~last'.ok /\ last'.err = "authority")]_vars

\* a system_generated candidate rejected on a path with history
C2_Witness ==
    /\ last.op = "commit"
    /\ ~last.ok
    /\ last.cand.source = SYS_GEN
    /\ UserOwned(artifacts, last.cand.file_path)
    /\ \E i \in 1..Len(artifacts) :
          artifacts[i].file_path = last.cand.file_path /\ ~artifacts[i].is_active

\* C3: a commit rejected for authority leaves the in-memory list and the
\* persisted file exactly as they were.
C3_RejectNoMutation ==
    [][(last'.op = "commit" /\ ~last'.ok)
       => (artifacts' = artifacts /\ disk' = disk)]_vars

\* a rejected commit on a non-empty, persisted store
C3_Witness ==
    /\ last.op = "commit"
    /\ ~last.ok
    /\ last.err = "authority"
    /\ Len(artifacts) >= 2
    /\ disk = artifacts

\* C4: a commit tagged user_modified always succeeds and its candidate
\* becomes the (only) active artifact of the path.
C4_UserCommitSucceeds ==
    (last.op = "commit" /\ last.cand.source = USER)
    => /\ last.ok
       /\ \E i \in 1..Len(artifacts) :
             /\ artifacts[i].artifact_id = last.cand.artifact_id
             /\ artifacts[i].source = USER
             /\ ActiveAt(artifacts, last.cand.file_path) = {i}

\* a user_modified commit superseding a user_modified version
C4_Witness ==
    /\ last.op = "commit"
    /\ last.ok
    /\ last.cand.source = USER
    /\ \E i \in 1..Len(artifacts) :
          /\ artifacts[i].file_path = last.cand.file_path
          /\ ~artifacts[i].is_active
          /\ artifacts[i].source = USER
          /\ artifacts[i].version + 1 = last.out.version

\* C5: an accepted commit gets the version of the previously active artifact
\* of the path plus one (1 when there is none), deactivates the previously
\* active artifacts of the path and adds the candidate as active; the k-th
\* accepted commit to a path gets version k, also after cleanups.
C5_VersionSuccessor ==
    [][(last'.op = "commit" /\ last'.ok)
       => LET path == last'.cand.file_path
              prev == ActiveAt(artifacts, path)
          IN /\ \A i \in prev : last'.out.version = artifacts[i].version + 1
             /\ prev = {} => last'.out.version = 1
             /\ \A i \in prev : \A j \in 1..Len(artifacts') :
                   artifacts'[j].artifact_id = artifacts[i].artifact_id
                   => ~artifacts'[j].is_active
             /\ \E j \in 1..Len(artifacts') :
                   artifacts'[j] = last'.out /\ artifacts'[j].is_active
             /\ last'.out.artifact_id = last'.cand.artifact_id
             /\ last'.out.version = ncommits'[path]]_vars

\* the third version of a path committed after a cleanup removed its first
C5_Witness ==
    /\ last.op = "commit"
    /\ last.ok
    /\ last.out.version = 3
    /\ \A i \in 1..Len(artifacts) :
          artifacts[i].file_path = last.cand.file_path => artifacts[i].version >= 2

(***************************************************************************)
(* Properties of the request controller                                    *)
(***************************************************************************)
\* C6: a request that fails in any phase, commit-each included, has committed
\* nothing: list and file are what they were before the request.
C6_AllOrNothing ==
    [][(last'.op = "request" /\ ~req'.ok)
       => (artifacts' = artifacts /\ disk' = disk)]_vars

\* the version of the active artifact stored for a proposed path, 0 without one
ActiveVersionAt(arts, file_path) ==
    LET act == ActiveAt(arts, normpath(file_path)) IN
    IF act = {} THEN 0 ELSE arts[FirstBad(act)].version

\* C7: in commit-each every validated proposed artifact whose path has an
\* active user_modified artifact in the store and is authorized by
\* allowed_paths is committed as the next version tagged user_modified, and
\* every other validated proposed artifact is committed tagged ai_modified.
C7_CommitEachTags ==
    [][(last'.op = "request" /\ req'.phase \in {"commit", "done"})
       => /\ req'.ok
          /\ Len(req'.committed) = Len(req'.proposed)
          /\ \A k \in 1..Len(req'.proposed) :
                LET p == req'.proposed[k]
                    c == req'.committed[k]
                IN IF /\ UserOwned(artifacts, normpath(p.file_path))
                      /\ is_allowed(p.file_path, req'.allowed_paths)
                   THEN /\ c.source = USER
                        /\ c.version = ActiveVersionAt(artifacts, p.file_path) + 1
                   ELSE c.source = AI_MOD]_vars

\* C16: on the same retrieved set and allowed_paths, _pre_validate_authority
\* rejects the request exactly when the Authority rule rejects the batch the
\* generator proposes for it.
C16_PreCheckIsTheRule ==
    (last.op = "request" /\ req.gen.ok /\ parse_llm_output(req.gen.raw).ok)
    => (req.phase = "pre_validate"
        <=> ~AuthorityCheck(parse_llm_output(req.gen.raw).artifacts,
                            ActiveLookup(req.active_artifacts),
                            req.allowed_paths).ok)

(***************************************************************************)
(* Properties of the validation rules                                      *)
(***************************************************************************)
\* the active artifact the batch of the rule inputs finds at a path string
HasActiveUser(file_path) ==
    \E i \in 1..Len(vin.active) :
        /\ vin.active[i].file_path = file_path
        /\ vin.active[i].is_active
        /\ vin.active[i].source = USER

\* C8: the Authority rule rejects exactly when some proposed path has an
\* active user_modified artifact and is neither in allowed_paths nor covered
\* by "*"; with "*" in allowed_paths it never rejects.
C8_AuthorityRule ==
    vout.rule = "authority"
    => /\ ~vout.ok <=> \E i \in 1..Len(vin.proposed) :
                          /\ HasActiveUser(vin.proposed[i].file_path)
                          /\ vin.proposed[i].file_path \notin vin.allowed_paths
                          /\ Star \notin vin.allowed_paths
       /\ Star \in vin.allowed_paths => vout.ok

\* the rule lets an allowed edit of a user_modified file through, next to an
\* ai_modified file that is not allowed
C8_Witness ==
    /\ vout.rule = "authority"
    /\ vout.ok
    /\ Star \notin vin.allowed_paths
    /\ \E i \in 1..Len(vin.proposed) :
          /\ HasActiveUser(vin.proposed[i].file_path)
          /\ vin.proposed[i].file_path \in vin.allowed_paths
    /\ \E i \in 1..Len(vin.proposed) :
          vin.proposed[i].file_path \notin vin.allowed_paths

\* C9: the Scope rule rejects exactly when some proposed path is not in
\* allowed_paths and allowed_paths has no "*", whatever the active artifacts.
C9_ScopeRule ==
    vout.rule = "scope"
    => (~vout.ok <=> /\ Star \notin vin.allowed_paths
                     /\ \E i \in 1..Len(vin.proposed) :
                           vin.proposed[i].file_path \notin vin.allowed_paths)

\* the rule rejects a path that has no active artifact at all
C9_Witness ==
    /\ vout.rule = "scope"
    /\ ~vout.ok
    /\ vin.active = <<>>
    /\ vin.allowed_paths # {}

Duplicated(proposed) ==
    \E i, j \in 1..Len(proposed) :
        i # j /\ proposed[i].file_path = proposed[j].file_path

\* C10: the Consistency rule rejects exactly when a file path appears more
\* than once in the batch, and the chain never accepts such a batch.
C10_ConsistencyRule ==
    /\ vout.rule = "consistency" => (~vout.ok <=> Duplicated(vin.proposed))
    /\ (vout.rule = "validate" /\ Duplicated(vin.proposed)) => ~vout.ok

\* the chain rejects a batch with a repeated path for the duplicate itself
C10_Witness ==
    /\ vout.rule = "validate"
    /\ ~vout.ok
    /\ vout.reason = "Duplicate artifact"
    /\ Duplicated(vin.proposed)

\* the rules the chain is made of, evaluated on the rule inputs
SyntaxFails ==
    ~SyntaxCheck(vin.proposed, ActiveLookup(vin.active), vin.allowed_paths).ok
AuthorityFails ==
    ~AuthorityCheck(vin.proposed, ActiveLookup(vin.active), vin.allowed_paths).ok
ScopeFails ==
    ~ScopeCheck(vin.proposed, ActiveLookup(vin.active), vin.allowed_paths).ok
ConsistencyFails ==
    ~ConsistencyCheck(vin.proposed, ActiveLookup(vin.active), vin.allowed_paths).ok

SyntaxReasons == {"Empty content", "Language/file mismatch"}

\* C11: validate returns the failure of the earliest failing rule in the order
\* Syntax, Authority, Scope, Consistency, each rule seeing the full batch.
C11_FirstFailureWins ==
    vout.rule = "validate"
    => /\ SyntaxFails
          => vout = RuleResult("validate", SyntaxCheck(vin.proposed,
                        ActiveLookup(vin.active), vin.allowed_paths))
       /\ SyntaxFails => vout.reason \in SyntaxReasons
       /\ (~SyntaxFails /\ AuthorityFails)
          => /\ vout = RuleResult("validate", AuthorityCheck(vin.proposed,
                           ActiveLookup(vin.active), vin.allowed_paths))
             /\ vout.reason = "Unauthorized modification of user file"
       /\ (~SyntaxFails /\ ~AuthorityFails /\ ScopeFails)
          => /\ vout = RuleResult("validate", ScopeCheck(vin.proposed,
                           ActiveLookup(vin.active), vin.allowed_paths))
             /\ vout.reason = "Out-of-scope modification"
       /\ (~SyntaxFails /\ ~AuthorityFails /\ ~ScopeFails /\ ConsistencyFails)
          => /\ vout = RuleResult("validate", ConsistencyCheck(vin.proposed,
                           ActiveLookup(vin.active), vin.allowed_paths))
             /\ vout.reason = "Duplicate artifact"

\* the Authority failure is returned for a batch that the Scope rule would
\* reject as well, at an earlier artifact of the batch
C11_Witness ==
    /\ vout.rule = "validate"
    /\ ~SyntaxFails /\ AuthorityFails /\ ScopeFails
    /\ vout.reason = "Unauthorized modification of user file"
    /\ vout.path # ScopeCheck(vin.proposed, ActiveLookup(vin.active),
                              vin.allowed_paths).path

\* C12: validate returns ok exactly when all four rules pass, and the passing
\* result carries the proposed batch unchanged.
C12_PassCarriesBatch ==
    vout.rule = "validate"
    => /\ vout.ok <=> (~SyntaxFails /\ ~AuthorityFails /\ ~ScopeFails
                        /\ ~ConsistencyFails)
       /\ vout.ok => vout.artifacts = vin.proposed

\* a batch of two artifacts passes next to a user_modified file it may edit
C12_Witness ==
    /\ vout.rule = "validate"
    /\ vout.ok
    /\ Len(vout.artifacts) = 2
    /\ vout.artifacts[1] # vout.artifacts[2]
    /\ HasActiveUser(vout.artifacts[1].file_path)
    /\ Star \notin vin.allowed_paths

(***************************************************************************)
(* Properties of concurrent requests                                       *)
(***************************************************************************)
\* C13: two handles on the same project that commit to the same file path
\* never both obtain the same version number for it.
C13_DistinctVersions ==
    \A h1, h2 \in Handles :
        h1 # h2 =>
        \A i \in 1..Len(handles[h1].committed), j \in 1..Len(handles[h2].committed) :
            handles[h1].committed[i].file_path = handles[h2].committed[j].file_path
            => handles[h1].committed[i].version # handles[h2].committed[j].version

\* C14: when the concurrent requests have finished, the store file is a
\* complete document holding the artifacts committed through every handle.
C14_NoCommitLost ==
    (Writers = {})
    => /\ fstate.status = "ok"
       /\ \A h \in Handles : \A i \in 1..Len(handles[h].committed) :
             handles[h].committed[i].artifact_id \in Ids(disk)

\* C15: a handle that loads the file while another persists gets the
\* complete artifact set from before the commit or the one after it.
C15_NoPartialRead == \A h \in Handles : ~handles[h].torn

(***************************************************************************)
(* Properties of the dependency expansion                                  *)
(***************************************************************************)
ActiveIds(arts) == {arts[i].artifact_id : i \in {j \in 1..Len(arts) : arts[j].is_active}}

\* the ids an active artifact refers to
DepsOf(arts, id) ==
    UNION {Range(arts[i].dependencies) :
              i \in {j \in 1..Len(arts) : arts[j].is_active /\ arts[j].artifact_id = id}}

\* the least set of ids that holds S and every active artifact a member refers to
RECURSIVE Reach(_, _)
Reach(arts, S) ==
    LET more == S \cup {d \in ActiveIds(arts) : \E id \in S : d \in DepsOf(arts, id)}
    IN IF more = S THEN S ELSE Reach(arts, more)

\* C17: _expand_dependencies returns the seed artifacts plus every active
\* artifact reachable from a seed through dependency references, each once;
\* missing and inactive targets are skipped and not expanded further.
C17_ExactClosure ==
    walk.pc = "done"
    => /\ Ids(walk.result) = Reach(vin.arts, Ids(vin.seed))
       /\ Cardinality(Ids(walk.result)) = Len(walk.result)
       /\ Range(walk.result) \subseteq Range(vin.arts)
       /\ SubSeq(walk.result, 1, Len(vin.seed)) = vin.seed
       /\ walk.result = expand_dependencies(vin.arts, vin.seed)

\* seed "b.css" refers to "a.tsx", which refers to its own superseded
\* version (that one refers to "src/c.ts") and to a missing id: the result is
\* "b.css" and "a.tsx", and "src/c.ts" is not reached
C17_Witness ==
    /\ walk.pc = "done"
    /\ Ids(vin.seed) = {2}
    /\ vin.arts[3].dependencies = <<1>>
    /\ vin.arts[2].dependencies = <<4, MissingId>>
    /\ Ids(walk.result) = {1, 2}

\* C18: _expand_dependencies terminates on every dependency graph, cycles and
\* self-references included; every artifact id is expanded at most once; for
\* the cycle A -> B, B -> A and the seed {A} the result is exactly {A, B}.
C18_Terminates ==
    /\ <>(walk.pc = "done")
    /\ [](\A i, j \in 1..Len(walk.expanded) :
             walk.expanded[i] = walk.expanded[j] => i = j)
    /\ []((/\ walk.pc = "done"
           /\ Ids(vin.seed) = {1}
           /\ vin.arts[2].dependencies = <<2>>
           /\ vin.arts[3].dependencies = <<1>>)
          => (Len(walk.result) = 2 /\ Ids(walk.result) = {1, 2}))

\* the loop has ended on the cycle "a.tsx" -> "b.css" -> "a.tsx"
C18_Witness ==
    /\ walk.pc = "done"
    /\ Ids(vin.seed) = {1}
    /\ vin.arts[2].dependencies = <<2>>
    /\ vin.arts[3].dependencies = <<1>>
    /\ walk.expanded = <<1, 2>>

(***************************************************************************)
(* Properties of retrieve                                                  *)
(***************************************************************************)
\* the active artifacts that pass the scope and the file path filter of the
\* retrieval inputs
FilteredIds ==
    {vin.arts[i].artifact_id : i \in
        {j \in 1..Len(vin.arts) :
            /\ vin.arts[j].is_active
            /\ vin.scope # {} => vin.arts[j].type \in vin.scope
            /\ vin.file_paths # {} => vin.arts[j].file_path \in vin.file_paths}}

\* the filtered and dependency-expanded active set
CandidateSet ==
    {a \in Range(vin.arts) :
        a.is_active /\ a.artifact_id \in Reach(vin.arts, FilteredIds)}

Min(a, b) == IF a < b THEN a ELSE b

\* C19: retrieve without a query returns the first limit artifacts of the
\* filtered and dependency-expanded active set in ascending file path order,
\* and the same sequence whenever store and arguments are the same.
C19_SortedPrefix ==
    vout.rule = "retrieve"
    => LET res == vout.artifacts IN
       /\ Range(res) \subseteq CandidateSet
       /\ Len(res) = Min(vin.limit, Cardinality(CandidateSet))
       /\ \A i, j \in 1..Len(res) :
             i < j => PathRank(res[i].file_path) < PathRank(res[j].file_path)
       /\ \A a \in CandidateSet \ Range(res) : \A i \in 1..Len(res) :
             PathRank(res[i].file_path) < PathRank(a.file_path)
       /\ res = retrieve(vin.arts, vin.scope, vin.file_paths, vin.limit)

\* "a.tsx" is asked for and brings "src/c.ts" and then "b.css" as
\* dependencies: with limit 2 the answer is "a.tsx", "b.css"
C19_Witness ==
    /\ vout.rule = "retrieve"
    /\ vin.file_paths = {pA}
    /\ vin.limit = 2
    /\ Cardinality(CandidateSet) = 3
    /\ vin.arts[2].dependencies = <<3>>
    /\ Len(vout.artifacts) = 2
    /\ vout.artifacts[1].file_path = pA
    /\ vout.artifacts[2].file_path = pB

LayoutSet == {a \in CandidateSet : a.type = "layout"}

\* C20 as stated: retrieve with a query whose ranking yields no candidate
\* under the threshold returns all layout artifacts of the candidate set.
C20_AllLayouts ==
    (vout.rule = "retrieve_query" /\ vin.hits = <<>>)
    => (vout.ok /\ Range(vout.artifacts) = LayoutSet)

\* C20 amended: retrieve with a query whose ranking yields no candidate under
\* the threshold returns the first limit layout artifacts of the candidate
\* set, in the order of the candidate set: all of them when they are at most
\* limit, none when the candidate set has no layout artifact.
C20_LayoutsUpToLimit ==
    (vout.rule = "retrieve_query" /\ vin.hits = <<>>)
    => LET res == vout.artifacts
           layouts == SelectSeq(Candidates(vin.arts, vin.scope, vin.file_paths),
                                LAMBDA a : a.type = "layout")
       IN /\ vout.ok
          /\ Range(layouts) = LayoutSet
          /\ Len(layouts) = Cardinality(LayoutSet)
          /\ Len(res) = Min(vin.limit, Len(layouts))
          /\ res = SubSeq(layouts, 1, Len(res))

\* nothing is under the threshold, the candidate set has two layout
\* artifacts and a third artifact, and the limit is 1
C20_Witness ==
    /\ vout.rule = "retrieve_query"
    /\ vin.hits = <<>>
    /\ vin.limit = 1
    /\ Cardinality(LayoutSet) = 2
    /\ Cardinality(CandidateSet) = 3
    /\ Len(vout.artifacts) = 1
    /\ vout.artifacts[1].type = "layout"

(***************************************************************************)
(* Properties of retention cleanup                                         *)
(***************************************************************************)
InactiveOf(arts, path) ==
    {a \in Range(arts) : a.file_path = path /\ ~a.is_active}

\* the n highest-versioned members of a set of artifacts
Newest(S, n) == {a \in S : Cardinality({b \in S : b.version > a.version}) < n}

\* the list a cleanup started from: the list of the state for a direct call,
\* the list with the new version appended for the call at the end of commit
BeforeCleanup ==
    IF last'.op = "cleanup" THEN artifacts
    ELSE Append(Supersede(artifacts, last'.cand.file_path), last'.out)

\* C21: cleanup_old_versions(keep_versions), keep_versions being 5 by default
\* and in the call commit makes, removes only inactive artifacts: every
\* artifact that was active is still in the list and active, nothing is added
\* or changed, and of each path's inactive artifacts exactly the keep_versions
\* highest-versioned remain (all of them when there are no more than that).
C21_CleanupKeepsNewest ==
    [][last'.cleaned
       => LET before == BeforeCleanup
              keep == last'.keep
          IN /\ \A a \in Range(before) : a.is_active => a \in Range(artifacts')
             /\ Range(artifacts') \subseteq Range(before)
             /\ Len(artifacts') = Cardinality(Range(artifacts'))
             /\ last'.removed = Len(before) - Len(artifacts')
             /\ \A path \in StoredPaths :
                   /\ InactiveOf(artifacts', path)
                        = Newest(InactiveOf(before, path), keep)
                   /\ Cardinality(InactiveOf(before, path)) <= keep
                        => InactiveOf(artifacts', path) = InactiveOf(before, path)
                   /\ Cardinality(InactiveOf(before, path)) > keep
                        => Cardinality(InactiveOf(artifacts', path)) = keep]_vars

\* a cleanup with keep_versions = 5 has removed the two oldest of the seven
\* inactive versions of a.tsx and left b.css, which has a single inactive
\* version, alone
C21_Witness ==
    /\ last.cleaned
    /\ last.keep = KeepVersions
    /\ last.removed = 2
    /\ {a.version : a \in InactiveOf(artifacts, pA)} = 3..7
    /\ Cardinality(InactiveOf(artifacts, pB)) = 1
    /\ \E a \in Range(artifacts) : a.file_path = pA /\ a.is_active /\ a.version = 8

(***************************************************************************)
(* artifacts.json as a JSON text: _persist and _load                       *)
(***************************************************************************)
\* JSON values
JNull == [t |-> "null"]
JNum(n) == [t |-> "number", v |-> n]
JStr(s) == [t |-> "string", v |-> s]
JBool(b) == [t |-> "bool", v |-> b]
JArr(s) == [t |-> "array", v |-> s]
JObj(f) == [t |-> "object", v |-> f]

\* mutant: the state fields version and is_active are not written
dict_NoState(a) ==
    [artifact_id |-> JStr(a.artifact_id), type |-> JStr(a.type),
     file_path |-> JStr(a.file_path), content |-> JStr(a.content),
     language |-> JStr(a.language), source |-> JStr(a.source),
     dependencies |-> JArr([i \in 1..Len(a.dependencies) |-> JStr(a.dependencies[i])])]

\* a.dict() as json.dump writes it: the str enums type and source as their
\* values, version as a number, is_active as true or false
dict(a) ==
    [artifact_id |-> JStr(a.artifact_id), type |-> JStr(a.type),
     file_path |-> JStr(a.file_path), content |-> JStr(a.content),
     language |-> JStr(a.language), version |-> JNum(a.version),
     is_active |-> JBool(a.is_active), source |-> JStr(a.source),
     dependencies |-> JArr([i \in 1..Len(a.dependencies) |-> JStr(a.dependencies[i])])]

\* json.dump([a.dict() for a in self.artifacts], f, indent=2, default=str)
json_dump(arts) == JArr([i \in 1..Len(arts) |-> JObj(dict(arts[i]))])

\* the file after _persist wrote the list arts
persist(arts) ==
    [kind |-> "json", doc |-> json_dump(arts), origin |-> "persist", persisted |-> arts]

ArtifactTypes == {"component", "page", "layout", "config"}
RequiredFields == {"type", "file_path", "content", "language", "source"}
StringFields == {"artifact_id", "type", "file_path", "content", "language", "source"}

\* Artifact(**a) raises pydantic's ValidationError on the JSON object o
ValidationError(o) ==
    \/ ~(RequiredFields \subseteq DOMAIN o)
    \/ \E k \in StringFields \cap DOMAIN o : o[k].t # "string"
    \/ "version" \in DOMAIN o /\ o.version.t # "number"
    \/ "is_active" \in DOMAIN o /\ o.is_active.t # "bool"
    \/ "dependencies" \in DOMAIN o /\ o.dependencies.t # "array"
    \/ o.type.v \notin ArtifactTypes
    \/ o.source.v \notin ArtifactSource
    \/ ArtifactInvalid(o.file_path.v, o.content.v, o.language.v)

\* Artifact(**a) on a JSON object that validates: absent state fields take
\* their defaults, the file path is normalized again
ArtifactOf(o) ==
    [artifact_id |-> o.artifact_id.v, type |-> o.type.v,
     file_path |-> file_path_must_look_valid(o.file_path.v),
     content |-> o.content.v, language |-> o.language.v,
     version |-> IF "version" \in DOMAIN o THEN o.version.v ELSE 1,
     is_active |-> IF "is_active" \in DOMAIN o THEN o.is_active.v ELSE TRUE,
     source |-> o.source.v,
     dependencies |-> IF "dependencies" \in DOMAIN o
                      THEN [i \in 1..Len(o.dependencies.v) |-> o.dependencies.v[i].v]
                      ELSE <<>>]

Loaded(arts) == [raised |-> "", artifacts |-> arts]
Raised(err) == [raised |-> err, artifacts |-> <<>>]

\* [Artifact(**a) for a in raw], raw a JSON array: an element that is no
\* object makes ** raise TypeError
RECURSIVE FromArray(_, _)
FromArray(items, acc) ==
    IF items = <<>> THEN Loaded(acc)
    ELSE IF Head(items).t # "object" THEN Raised("TypeError")
    ELSE IF ValidationError(Head(items).v) THEN Raised("ValidationError")
    ELSE FromArray(Tail(items), Append(acc, ArtifactOf(Head(items).v)))

\* [Artifact(**a) for a in raw] on any JSON value: null, numbers and booleans
\* are not iterable, a string iterates its characters and an object its keys
Comprehension(raw) ==
    CASE raw.t = "array" -> FromArray(raw.v, <<>>)
      [] raw.t = "object" -> IF DOMAIN raw.v = {} THEN Loaded(<<>>)
                            ELSE Raised("TypeError")
      [] raw.t = "string" -> IF raw.v = "" THEN Loaded(<<>>) ELSE Raised("TypeError")
      [] OTHER -> Raised("TypeError")

\* StateRAGManager._load on the file f: no file and an empty text return
\* early, a text that is no JSON document is caught (JSONDecodeError) and
\* resets the list, any other exception leaves _load and __init__
load_file(f) ==
    CASE f.kind = "missing" -> Loaded(<<>>)
      [] f.kind = "blank" -> Loaded(<<>>)
      [] f.kind = "text" -> Loaded(<<>>)
      [] OTHER -> Comprehension(f.doc)

\* mutant: the index covers every artifact of the list, inactive ones included
build_faiss_index_All(arts) ==
    [faiss_index |-> arts # <<>>,
     faiss_ids |-> [i \in 1..Len(arts) |-> arts[i].artifact_id]]

\* StateRAGManager._build_faiss_index
build_faiss_index(arts) ==
    LET active == SelectSeq(arts, LAMBDA a : a.is_active)
    IN [faiss_index |-> active # <<>>,
        faiss_ids |-> [i \in 1..Len(active) |-> active[i].artifact_id]]

(***************************************************************************)
(* Storage specification: a project whose artifacts.json may have been     *)
(* written by hand; store handles are constructed on it, commit through it *)
(* and answer query retrievals                                             *)
(***************************************************************************)
MaxStored == 3

\* records written by hand into artifacts.json
HandRecord(id, file_path, content, source) ==
    [artifact_id |-> JStr(id), type |-> JStr("config"), file_path |-> JStr(file_path),
     content |-> JStr(content), language |-> JStr("tsx"), version |-> JNum(1),
     is_active |-> JBool(TRUE), source |-> JStr(source),
     dependencies |-> JArr(<<>>)]

pUp == P(<<"..">>, "a", "tsx")       \* "../a.tsx"

\* the documents found in a hand-edited artifacts.json
HandDocs ==
    <<JNull, JNum(5), JStr(""), JObj(<<>>), JObj([artifacts |-> JArr(<<>>)]),
     JArr(<<>>), JArr(<<JNum(1)>>), JArr(<<JObj([foo |-> JNum(1)])>>),
     JArr(<<JObj(HandRecord(8, pDotA, "c2", USER))>>),
     JArr(<<JObj(HandRecord(8, pA, "", USER))>>),
     JArr(<<JObj(HandRecord(8, pUp, "c2", USER))>>),
     JArr(<<JObj(HandRecord(8, pA, "c2", "human"))>>),
     JArr(<<JObj([type |-> JStr("config"), file_path |-> JStr(pB),
                  content |-> JStr("c2"), language |-> JStr("css"),
                  source |-> JStr(AI_GEN), artifact_id |-> JStr(9)])>>)>>

\* no file, a file of white space, a text that is no JSON, a JSON document
FileChoice(i) ==
    CASE i = -2 -> NoStateFile
      [] i = -1 -> [NoStateFile EXCEPT !.kind = "blank"]
      [] i = 0 -> [NoStateFile EXCEPT !.kind = "text"]
      [] OTHER -> [kind |-> "json", doc |-> HandDocs[i], origin |-> "hand",
                   persisted |-> <<>>]

InitStorage ==
    /\ artifacts = <<>>
    /\ disk = <<>>
    /\ nextId = 1
    /\ ncommits = [p \in StoredPaths |-> 0]
    /\ last = NoLast
    /\ req = NoReq
    /\ nrequests = 0
    /\ vin = NoVin
    /\ vout = NoVout
    /\ handles = [h \in Handles |-> NoHandle]
    /\ fstate = NoFile
    /\ walk = NoWalk
    /\ \E i \in -2..Len(HandDocs) : state_file = FileChoice(i)
    /\ mgr = NoMgr
    /\ gem = NoGem
    /\ projects_file = NoProjectsFile
    /\ store_calls = NoCalls

\* StateRAGManager(project_id): __init__ and _load; an exception that leaves
\* _load leaves the constructor, and the caller has no handle
Construct ==
    \E r \in {load_file(state_file)} :
        /\ artifacts' = r.artifacts
        /\ mgr' = [NoMgr EXCEPT !.pc = IF r.raised = "" THEN "ready" ELSE "failed",
                                !.op = "load", !.raised = r.raised]
        /\ UNCHANGED <<disk, nextId, ncommits, last, req, nrequests, vin, vout,
                       handles, fstate, walk, state_file, gem,
                   projects_file, store_calls>>

\* commit(new_artifact) through the constructed handle: the commit itself
\* with its _persist and cleanup, then the rebuild of an initialized index
HandleCommit(file_path, content, source, max_accepted) ==
    /\ mgr.pc = "ready"
    /\ \E new_artifact \in {Artifact(nextId, infer_type(file_path), file_path, content,
                                      CandLanguage(file_path), source, <<>>)} :
       \E r \in {commit(artifacts, disk, new_artifact)} :
          /\ ~ArtifactInvalid(file_path, content, CandLanguage(file_path))
          /\ r.ok => Accepted < max_accepted
          /\ artifacts' = r.artifacts
          /\ disk' = r.disk
          /\ state_file' = IF r.ok THEN persist(r.disk) ELSE state_file
          /\ nextId' = IF r.ok THEN nextId + 1 ELSE nextId
          /\ ncommits' = IF r.ok
                         THEN [ncommits EXCEPT ![new_artifact.file_path] = @ + 1]
                         ELSE ncommits
          /\ last' = [op |-> "commit", ok |-> r.ok, err |-> r.err,
                      cand |-> new_artifact, out |-> r.out,
                      keep |-> IF r.cleaned THEN KeepVersions ELSE 0,
                      cleaned |-> r.cleaned, removed |-> r.removed]
          /\ \E built \in {build_faiss_index(r.artifacts)} :
                mgr' = IF r.ok
                       THEN IF mgr.embedder
                            THEN [mgr EXCEPT !.op = "commit", !.commits = @ + 1,
                                             !.faiss_index = built.faiss_index,
                                             !.faiss_ids = built.faiss_ids,
                                             !.builds = @ + 1]
                            ELSE [mgr EXCEPT !.op = "commit", !.commits = @ + 1]
                       ELSE [mgr EXCEPT !.op = "commit"]
          /\ UNCHANGED <<req, nrequests, vin, vout, handles, fstate, walk, gem,
                   projects_file, store_calls>>

\* retrieve(user_query=...) with a non-empty query: _rank_with_faiss calls
\* _ensure_faiss_ready, which creates the embedder and builds the index once
Query ==
    /\ mgr.pc = "ready"
    /\ \E built \in {build_faiss_index(artifacts)} :
          mgr' = IF mgr.embedder
                 THEN [mgr EXCEPT !.op = "query", !.queried = TRUE]
                 ELSE [mgr EXCEPT !.op = "query", !.queried = TRUE,
                                  !.embedder = TRUE,
                                  !.faiss_index = built.faiss_index,
                                  !.faiss_ids = built.faiss_ids,
                                  !.builds = @ + 1]
    /\ UNCHANGED <<artifacts, disk, nextId, ncommits, last, req, nrequests, vin, vout,
                   handles, fstate, walk, state_file, gem,
                   projects_file, store_calls>>

StoredCommitStep ==
    \E file_path \in CandPaths, content \in CandContents, source \in {USER, AI_MOD} :
        HandleCommit(file_path, content, source, MaxStored)

NextStorage == Construct \/ StoredCommitStep \/ Query

SpecStorage == InitStorage /\ [][NextStorage]_vars

(***************************************************************************)
(* Properties of _persist and _load                                        *)
(***************************************************************************)
\* what the round trip has to preserve of one artifact
StoredTuple(a) == <<a.file_path, a.version, a.content, a.source, a.is_active>>

StoredTuples(arts) == {StoredTuple(a) : a \in Range(arts)}

C23_LoadNeverFails ==
    mgr.op = "load"
    => /\ mgr.raised = ""
       /\ mgr.pc = "ready"
       /\ (state_file.kind # "json" \/ Comprehension(state_file.doc).raised # "")
             => artifacts = <<>>

(***************************************************************************)
(* Properties of the embedding index                                       *)
(***************************************************************************)
ActiveList(arts) == SelectSeq(arts, LAMBDA a : a.is_active)

\* C29: a handle that has answered no query retrieval has no embedder and
\* has never built an index, whatever it loaded and committed; a commit
\* that returns on a handle whose index has been built rebuilds it once,
\* and the indexed ids are then exactly the ids of the active artifacts.
C29_LazyIndex ==
    [][/\ ~mgr'.queried
          => (~mgr'.embedder /\ mgr'.builds = 0 /\ ~mgr'.faiss_index
              /\ mgr'.faiss_ids = <<>>)
       /\ (mgr'.op = "commit" /\ last'.ok /\ mgr'.commits = mgr.commits + 1
           /\ mgr.embedder)
          => /\ mgr'.builds = mgr.builds + 1
             /\ mgr'.faiss_index
             /\ Len(mgr'.faiss_ids) = Len(ActiveList(artifacts'))
             /\ Range(mgr'.faiss_ids)
                  = {a.artifact_id : a \in Range(ActiveList(artifacts'))}]_vars

\* a handle that loaded a hand-written store, answered a query and then
\* committed twice: three builds, two active artifacts indexed, one
\* superseded artifact left out
C29_Witness ==
    /\ mgr.op = "commit"
    /\ mgr.embedder
    /\ mgr.builds = 3
    /\ mgr.commits = 2
    /\ Len(mgr.faiss_ids) = 2
    /\ Len(artifacts) = 3
    /\ \E a \in Range(artifacts) : ~a.is_active /\ a.artifact_id \notin Range(mgr.faiss_ids)

(***************************************************************************)
(* Cadence specification: store handles constructed one after another on   *)
(* one project, each committing generated files                            *)
(***************************************************************************)
MaxCadence == 12

CadenceCommitStep ==
    \E file_path \in CandPaths, content \in CandContents :
        HandleCommit(file_path, content, AI_MOD, MaxCadence)

NextCadence == Construct \/ CadenceCommitStep

SpecCadence == Init /\ [][NextCadence]_vars

\* C27: a commit through a store handle runs the retention cleanup exactly
\* when it is the 10th, 20th, 30th, ... commit made through that handle.
C27_EveryTenthCommit ==
    [][(mgr'.op = "commit" /\ last'.ok /\ mgr'.commits = mgr.commits + 1)
       => (last'.cleaned <=> mgr'.commits % CleanupEvery = 0)]_vars

(***************************************************************************)
(* LLMAdapter._gemini_response_with_retry (backend/llm_adapter.py)         *)
(***************************************************************************)
MaxRetries == 3          \* max_retries: int = 3

\* what one generate_content call does: it returns a response with a text,
\* or raises an exception whose str() holds the given marker substrings
Response(text) == [ok |-> TRUE, text |-> text, name |-> "", tokens |-> {}]
Failure(name, tokens) == [ok |-> FALSE, text |-> "", name |-> name, tokens |-> tokens]

RateLimit429 == Failure("429 Too Many Requests", {"429"})
ResourceExhausted == Failure("Resource exhausted", {"Resource exhausted"})
QuotaExceeded == Failure("Quota exceeded for metric", {"quota"})
Timeout == Failure("Deadline exceeded", {})
Server500 == Failure("500 Internal error", {})
Server503 == Failure("503 Service unavailable", {})
ConnectionError == Failure("Connection reset by peer", {})
BadCredentials == Failure("API key not valid", {})
MalformedRequest == Failure("400 Invalid argument", {})
ModelNotFound == Failure("404 models/x is not found", {"404", "not found"})

ProviderOutcomes ==
    {Response("t1"), Response("t2"), RateLimit429, ResourceExhausted, QuotaExceeded,
     Timeout, Server500, Server503, ConnectionError, BadCredentials,
     MalformedRequest, ModelNotFound}

\* "429" in error_str or "Resource exhausted" in error_str
\* or "quota" in error_str.lower()
is_rate_limit(e) == e.tokens \cap {"429", "Resource exhausted", "quota"} # {}

\* "404" in error_str or "not found" in error_str.lower()
is_not_found(e) == e.tokens \cap {"404", "not found"} # {}

\* wait_time = 5 * (3 ** attempt)
wait_time(attempt) == 5 * (3 ^ attempt)

\* __init__ of the loop: the first iteration of for attempt in range(max_retries)
StartLoop == [NoGem EXCEPT !.pc = "try"]

\* mutant: every failure of the provider is retried up to the ceiling
Iteration_RetryAny(g, outcome) ==
    LET called == [g EXCEPT !.calls = @ + 1, !.seen = Append(@, outcome)] IN
    IF outcome.ok
    THEN [called EXCEPT !.pc = "returned", !.text = outcome.text]
    ELSE IF g.attempt < MaxRetries - 1
    THEN [called EXCEPT !.pc = "sleep", !.wait_time = wait_time(g.attempt)]
    ELSE [called EXCEPT !.pc = "raised",
                        !.error = [kind |-> "Gemini API rate limit exceeded",
                                   retries |-> MaxRetries]]

\* mutant: a rate limit is retried whatever the attempt
Iteration_NoCeiling(g, outcome) ==
    LET called == [g EXCEPT !.calls = @ + 1, !.seen = Append(@, outcome)] IN
    IF outcome.ok
    THEN [called EXCEPT !.pc = "returned", !.text = outcome.text]
    ELSE IF is_rate_limit(outcome)
    THEN [called EXCEPT !.pc = "sleep", !.wait_time = wait_time(g.attempt)]
    ELSE [called EXCEPT !.pc = "raised",
                        !.error = [kind |-> "Gemini API error", retries |-> 0]]

\* one iteration of the loop up to its return, raise or time.sleep
Iteration(g, outcome) ==
    LET called == [g EXCEPT !.calls = @ + 1, !.seen = Append(@, outcome)] IN
    IF outcome.ok
    THEN [called EXCEPT !.pc = "returned", !.text = outcome.text]
    ELSE IF is_rate_limit(outcome)
    THEN IF g.attempt < MaxRetries - 1
         THEN [called EXCEPT !.pc = "sleep", !.wait_time = wait_time(g.attempt)]
         ELSE [called EXCEPT !.pc = "raised",
                             !.error = [kind |-> "Gemini API rate limit exceeded",
                                        retries |-> MaxRetries]]
    ELSE IF is_not_found(outcome)
    THEN [called EXCEPT !.pc = "raised",
                        !.error = [kind |-> "Gemini model error", retries |-> 0]]
    ELSE [called EXCEPT !.pc = "raised",
                        !.error = [kind |-> "Gemini API error", retries |-> 0]]

\* time.sleep(wait_time) is over; continue with the next attempt, or leave
\* the loop for the final raise when range(max_retries) is used up
AfterSleep(g) ==
    IF g.attempt + 1 < MaxRetries
    THEN [g EXCEPT !.pc = "try", !.attempt = @ + 1, !.waits = Append(@, g.wait_time)]
    ELSE [g EXCEPT !.pc = "raised", !.waits = Append(@, g.wait_time),
                   !.error = [kind |-> "Max retries exceeded", retries |-> 0]]

(***************************************************************************)
(* Generation specification: calls of _gemini_response_with_retry, one     *)
(* loop step at a time, against a provider that answers or fails           *)
(***************************************************************************)
GeminiCall ==
    /\ gem.pc \in {"idle", "returned", "raised"}
    /\ gem' = StartLoop
    /\ UNCHANGED <<artifacts, disk, nextId, ncommits, last, req, nrequests, vin, vout,
                   handles, fstate, walk, state_file, mgr,
                   projects_file, store_calls>>

GeminiAttempt ==
    /\ gem.pc = "try"
    /\ \E outcome \in ProviderOutcomes : gem' = Iteration(gem, outcome)
    /\ UNCHANGED <<artifacts, disk, nextId, ncommits, last, req, nrequests, vin, vout,
                   handles, fstate, walk, state_file, mgr,
                   projects_file, store_calls>>

GeminiSleep ==
    /\ gem.pc = "sleep"
    /\ gem' = AfterSleep(gem)
    /\ UNCHANGED <<artifacts, disk, nextId, ncommits, last, req, nrequests, vin, vout,
                   handles, fstate, walk, state_file, mgr,
                   projects_file, store_calls>>

NextGemini == GeminiCall \/ GeminiAttempt \/ GeminiSleep

SpecGemini == Init /\ [][NextGemini]_vars

\* a provider call returns or raises, and a sleep ends
SpecGeminiLive == SpecGemini /\ WF_vars(GeminiAttempt) /\ WF_vars(GeminiSleep)

(***************************************************************************)
(* Properties of the generation retry loop                                 *)
(***************************************************************************)
GeminiDone == gem.pc \in {"returned", "raised"}

RetryCeiling == 3        \* max_retries: int = 3

\* the failures classified as transient: timeout, rate limit,
\* 429/500/503-class, connection error
TransientFailures ==
    {RateLimit429, ResourceExhausted, QuotaExceeded, Timeout, Server500, Server503,
     ConnectionError}

is_transient(e) == ~e.ok /\ e \in TransientFailures

\* what self.llm.generate(prompt) gave the caller: the text, or a
\* RuntimeError whose message carries the provider's failure
GenerateResult(g) ==
    IF g.pc = "returned" THEN Response(g.text) ELSE g.seen[g.calls]

\* mutant: a permanent failure is retried like a transient one
AfterGenerate_RetryAll(o, result) ==
    LET tried == [o EXCEPT !.seen = Append(@, result)] IN
    IF result.ok THEN [tried EXCEPT !.pc = "returned", !.text = result.text]
    ELSE IF o.attempt < RetryCeiling - 1 THEN [tried EXCEPT !.pc = "backoff"]
    ELSE [tried EXCEPT !.pc = "raised",
                       !.error = [kind |-> "retries exhausted",
                                  retries |-> RetryCeiling]]

\* one attempt of the loop is over: return the text, back off and retry a
\* transient failure below the ceiling, raise the terminal error at the
\* ceiling, let a permanent failure through
AfterGenerate(o, result) ==
    LET tried == [o EXCEPT !.seen = Append(@, result)] IN
    IF result.ok THEN [tried EXCEPT !.pc = "returned", !.text = result.text]
    ELSE IF is_transient(result)
    THEN IF o.attempt < RetryCeiling - 1
         THEN [tried EXCEPT !.pc = "backoff"]
         ELSE [tried EXCEPT !.pc = "raised",
                            !.error = [kind |-> "retries exhausted",
                                       retries |-> RetryCeiling]]
    ELSE [tried EXCEPT !.pc = "raised",
                       !.error = [kind |-> "permanent", retries |-> 0]]

(***************************************************************************)
(* Retry specification: the request controller's retry loop around the     *)
(* Gemini adapter                                                          *)
(***************************************************************************)
RetryCall ==
    /\ gem.outer.pc \in {"idle", "returned", "raised"}
    /\ gem' = [StartLoop EXCEPT !.outer = [NoOuter EXCEPT !.pc = "call"]]
    /\ UNCHANGED <<artifacts, disk, nextId, ncommits, last, req, nrequests, vin, vout,
                   handles, fstate, walk, state_file, mgr,
                   projects_file, store_calls>>

RetryResume ==
    /\ gem.outer.pc = "call"
    /\ gem.pc \in {"returned", "raised"}
    /\ gem' = [gem EXCEPT !.outer = AfterGenerate(@, GenerateResult(gem))]
    /\ UNCHANGED <<artifacts, disk, nextId, ncommits, last, req, nrequests, vin, vout,
                   handles, fstate, walk, state_file, mgr,
                   projects_file, store_calls>>

RetryBackoff ==
    /\ gem.outer.pc = "backoff"
    /\ gem' = [StartLoop EXCEPT
                  !.outer = [gem.outer EXCEPT !.pc = "call", !.attempt = @ + 1]]
    /\ UNCHANGED <<artifacts, disk, nextId, ncommits, last, req, nrequests, vin, vout,
                   handles, fstate, walk, state_file, mgr,
                   projects_file, store_calls>>

NextRetry == RetryCall \/ GeminiAttempt \/ GeminiSleep \/ RetryResume \/ RetryBackoff

SpecRetry == Init /\ [][NextRetry]_vars

HasEmptyPath(raw) == \E i \in 1..Len(raw) : raw[i].path = EmptyPath

\* the response has a marker whose content is empty
HasEmptyContent(raw) == \E i \in 1..Len(raw) : raw[i].content \in {"", " "}

\* the request of this step handed a generator response to the parser
ParsedInStep ==
    /\ nrequests' = nrequests + 1
    /\ req'.gen.ok
    /\ req'.phase \notin {"pre_validate", "generate"}

\* C30: a generator response with zero path markers, with a marker whose path
\* is empty or with a marker whose content is empty fails in parse_llm_output:
\* the request stops in the parse phase, before validation and commit, and the
\* store is unchanged
C30_MalformedOutputFailsParse ==
    [][(/\ ParsedInStep
        /\ \/ req'.gen.raw = <<>>
           \/ HasEmptyPath(req'.gen.raw)
           \/ HasEmptyContent(req'.gen.raw))
       => (/\ req'.phase = "parse"
           /\ req'.committed = <<>>
           /\ artifacts' = artifacts
           /\ disk' = disk)]_vars

(***************************************************************************)
(* C25, C26: the order of the steps of a request                           *)
(***************************************************************************)
\* a generation request was handled in this step
RequestInStep == nrequests' = nrequests + 1

\* every rule of the chain accepts the batch, each asked on its own
EveryRulePasses(proposed, active_artifacts, allowed_paths) ==
    LET active == ActiveLookup(active_artifacts) IN
    /\ SyntaxCheck(proposed, active, allowed_paths).ok
    /\ AuthorityCheck(proposed, active, allowed_paths).ok
    /\ ScopeCheck(proposed, active, allowed_paths).ok
    /\ ConsistencyCheck(proposed, active, allowed_paths).ok

\* position of a step in the trace of a request, 0 when it was not run
StepIndex(trace, step) ==
    IF \E i \in 1..Len(trace) : trace[i] = step
    THEN CHOOSE i \in 1..Len(trace) : trace[i] = step
    ELSE 0

\* C25: in handle_request the first commit of a request comes after the
\* validation of the whole proposed batch has returned ok; when the validation
\* fails the request makes no commit and leaves the store unchanged
C25_CommitOnlyAfterValidation ==
    [][RequestInStep =>
        /\ (req'.committed # <<>> \/ artifacts' # artifacts \/ disk' # disk)
              => /\ EveryRulePasses(req'.proposed, req'.active_artifacts,
                                    req'.allowed_paths)
                 /\ 0 < StepIndex(req'.trace, "validate")
                 /\ StepIndex(req'.trace, "validate")
                       < StepIndex(req'.trace, "commit_each")
        /\ (/\ StepIndex(req'.trace, "validate") > 0
            /\ ~EveryRulePasses(req'.proposed, req'.active_artifacts,
                                req'.allowed_paths))
              => /\ req'.committed = <<>>
                 /\ artifacts' = artifacts
                 /\ disk' = disk
                 /\ nextId' = nextId]_vars

\* a request on a store holding a user file committed a batch of two artifacts
\* after the chain accepted it
C25_Witness ==
    /\ req.phase = "done"
    /\ Len(req.active_artifacts) = 1
    /\ Len(req.committed) = 2
    /\ EveryRulePasses(req.proposed, req.active_artifacts, req.allowed_paths)
    /\ StepIndex(req.trace, "validate") = 7
    /\ StepIndex(req.trace, "commit_each") = 8
    /\ Len(artifacts) = 3

\* the steps of a request in the order the description gives them
PhaseOrder ==
    <<"retrieve_state", "pre_validate", "retrieve_advisory", "build_context",
      "invoke_generator", "parse", "validate", "commit_each">>

IsPrefix(s, t) == Len(s) <= Len(t) /\ s = SubSeq(t, 1, Len(s))

\* the pre-check rejects: a retrieved user_modified artifact is outside
\* allowed_paths, and allowed_paths has no "*"
PreCheckRejects(active_artifacts, allowed_paths) ==
    /\ Star \notin allowed_paths
    /\ \E i \in 1..Len(active_artifacts) :
          /\ active_artifacts[i].source = USER
          /\ active_artifacts[i].file_path \notin allowed_paths

\* C26: the steps of handle_request run in the order retrieve-state,
\* pre-validate-authority, retrieve-advisory-context, build-context,
\* invoke-external-generator, parse-output, validate, commit-each: a request
\* runs an initial part of that list, all of it when it commits, and never
\* reaches the generator when the pre-check rejected
C26_PhaseOrder ==
    req.phase # "none" =>
        /\ IsPrefix(req.trace, PhaseOrder)
        /\ Len(req.trace) >= 2
        /\ req.committed # <<>> => req.trace = PhaseOrder
        /\ PreCheckRejects(req.active_artifacts, req.allowed_paths)
              => /\ req.trace = <<"retrieve_state", "pre_validate">>
                 /\ StepIndex(req.trace, "invoke_generator") = 0
                 /\ req.committed = <<>>
        /\ ~PreCheckRejects(req.active_artifacts, req.allowed_paths)
              => StepIndex(req.trace, "invoke_generator") = 5

\* the pre-check rejected a request whose generator would have answered a batch
\* the rules accept
C26_Witness ==
    /\ req.phase = "pre_validate"
    /\ PreCheckRejects(req.active_artifacts, req.allowed_paths)
    /\ req.trace = <<"retrieve_state", "pre_validate">>
    /\ req.gen.ok
    /\ Len(req.gen.raw) = 1
    /\ req.gen.raw[1].path = pB

(***************************************************************************)
(* C31: stored artifacts are immutable apart from deactivation             *)
(***************************************************************************)
\* the artifact a of the store before the step and the artifact b that has its
\* artifact_id after the step differ at most by a deactivation
OnlyDeactivated(a, b) ==
    /\ b.file_path = a.file_path
    /\ b.content = a.content
    /\ b.version = a.version
    /\ b.source = a.source
    /\ b.type = a.type
    /\ b.language = a.language
    /\ b.dependencies = a.dependencies
    /\ b.is_active => a.is_active

CheckedLanguages == {"tsx", "ts", "js", "json"}

\* the proposed artifact has no content after trimming
Blank(p) == p.content \in {"", " "}

\* the proposed artifact declares a checked language and its path does not end
\* in the extension of that name
WrongExtension(p) == p.language \in CheckedLanguages /\ p.file_path.ext # p.language

\* C32: the Syntax rule rejects a batch exactly when some proposed artifact has
\* empty content after trimming, or declares tsx, ts, js or json and has a path
\* that does not end in .tsx, .ts, .js or .json respectively; an artifact of
\* any other language is never rejected for its extension
C32_SyntaxRule ==
    vout.rule = "syntax"
    => /\ ~vout.ok <=> \E i \in 1..Len(vin.proposed) :
                          Blank(vin.proposed[i]) \/ WrongExtension(vin.proposed[i])
       /\ (\A i \in 1..Len(vin.proposed) :
               /\ ~Blank(vin.proposed[i])
               /\ vin.proposed[i].language \notin CheckedLanguages)
             => vout.ok
       /\ vout.reason = "Language/file mismatch"
             => \E i \in 1..Len(vin.proposed) :
                   /\ vin.proposed[i].file_path = vout.path
                   /\ WrongExtension(vin.proposed[i])

\* the rule accepts a stylesheet stored under a .tsx path next to an html file
C32_Witness ==
    /\ vout.rule = "syntax"
    /\ vout.ok
    /\ Len(vin.proposed) = 2
    /\ vin.proposed[1] = ProposedArtifact(pA, "c2", "css")
    /\ vin.proposed[2] = ProposedArtifact(pHtml, "c2", "html")

(***************************************************************************)
(* C33: user ownership of a path is permanent                              *)
(***************************************************************************)
\* the path has an active artifact and every active artifact of it is
\* user_modified
UserTagged(arts, file_path) ==
    /\ ActiveAt(arts, file_path) # {}
    /\ \A i \in ActiveAt(arts, file_path) : arts[i].source = USER

\* C33: once the active artifact at a path is tagged user_modified, the active
\* artifact at that path is tagged user_modified in every later state, whatever
\* accepted or rejected commits and cleanups follow
C33_UserTagPermanent ==
    [][\A p \in StoredPaths :
          UserTagged(artifacts, p) => UserTagged(artifacts', p)]_vars

\* a user file was superseded by a user commit, a cleanup dropped the old
\* version, and a generated candidate for the path has just been rejected
C33_Witness ==
    /\ last.op = "commit"
    /\ ~last.ok
    /\ last.cand.file_path = pA
    /\ last.cand.source = AI_MOD
    /\ UserTagged(artifacts, pA)
    /\ ncommits[pA] = 2
    /\ \E i \in ActiveAt(artifacts, pA) : artifacts[i].version = 2
    /\ \A i \in 1..Len(artifacts) :
          artifacts[i].file_path = pA => artifacts[i].is_active

(***************************************************************************)
(* C34: the superseded artifact looked up by commit-each                   *)
(***************************************************************************)
\* the store when the commit loop reaches the k-th artifact of the batch
StoreBefore(k) ==
    CommitEach(artifacts, disk, nextId, req'.active_artifacts,
               SubSeq(req'.proposed, 1, k - 1), <<>>)

\* C34: in commit-each, for every validated proposed path the artifact old
\* looked up in the retrieved active set is the store's currently active
\* artifact at the path the new artifact is stored under, whenever the store has
\* one
C34_OldIsTheActiveArtifact ==
    [][(RequestInStep /\ StepIndex(req'.trace, "commit_each") > 0)
       => \A k \in 1..Len(req'.proposed) :
             LET before == StoreBefore(k)
                 stored_path == file_path_must_look_valid(req'.proposed[k].file_path)
                 act == ActiveAt(before.artifacts, stored_path)
                 old == OldOf(req'.active_artifacts, req'.proposed[k].file_path)
             IN (before.ok /\ act # {})
                   => \E i \in act : old.artifact_id = before.artifacts[i].artifact_id]_vars

(***************************************************************************)
(* C35: one version per path and request                                   *)
(***************************************************************************)
\* C35: after a successful handle_request every stored file path has advanced
\* by at most one version during the request, also when two proposed paths
\* differ as strings and are stored under the same normalized path
C35_OneVersionPerRequest ==
    [][(RequestInStep /\ req'.ok)
       => \A p \in StoredPaths :
             /\ CountPath(req'.committed, p) <= 1
             /\ ActiveVersionAt(artifacts', p) <= ActiveVersionAt(artifacts, p) + 1]_vars

(***************************************************************************)
(* C36: retrieve with a query stays inside the candidate set               *)
(***************************************************************************)
\* the hits are hits of the index: ids of active artifacts of the store
IndexedHits ==
    \A i \in 1..Len(vin.hits) : vin.hits[i] \in Range(faiss_ids_of(vin.arts))

\* C36: retrieve with a query never fails and returns only artifacts of the
\* filtered and dependency-expanded candidate set: an index hit under the
\* threshold for an active artifact that the scope or file path filter kept out
\* of the candidates is left out of the result
C36_QueryNeverFails ==
    (vout.rule = "retrieve_query" /\ IndexedHits)
    => /\ vout.ok
       /\ Range(vout.artifacts) \subseteq CandidateSet

(***************************************************************************)
(* C37: versions of a path                                                 *)
(***************************************************************************)
\* the positions of the stored artifacts of a path
StoredAt(arts, file_path) == {i \in 1..Len(arts) : arts[i].file_path = file_path}

\* C37: starting from an empty store, after every commit the active artifact of
\* each path has the highest version among the stored artifacts of the path, the
\* versions stored for one path are pairwise distinct, and every path that has a
\* stored artifact has exactly one active artifact
C37_ActiveIsNewest ==
    \A p \in StoredPaths :
        StoredAt(artifacts, p) # {}
        => /\ Cardinality(ActiveAt(artifacts, p)) = 1
           /\ \A i \in ActiveAt(artifacts, p), j \in StoredAt(artifacts, p) :
                 artifacts[j].version <= artifacts[i].version
           /\ \A i, j \in StoredAt(artifacts, p) :
                 artifacts[i].version = artifacts[j].version => i = j

\* the tenth commit has run the cleanup, which removed old versions of "a.tsx";
\* the path keeps its active version 8 and five older ones, "b.css" has two
C37_Witness ==
    /\ last.op = "commit"
    /\ last.ok
    /\ last.cleaned
    /\ last.removed = 2
    /\ Cardinality(StoredAt(artifacts, pA)) = KeepVersions + 1
    /\ Cardinality(StoredAt(artifacts, pB)) = 2
    /\ \E i \in ActiveAt(artifacts, pA) : artifacts[i].version = 8

(***************************************************************************)
(* History specification: one handle on an empty project that commits      *)
(* generated files to "a.tsx" and, a few times, to "b.css", with no direct *)
(* cleanup call                                                            *)
(***************************************************************************)
MaxHistory == 20     \* accepted commits of the handle
MaxSide == 4         \* accepted commits to "b.css" among them

HistoryCommitStep ==
    \E file_path \in CandPaths, content \in CandContents :
        /\ file_path = pB => ncommits[pB] < MaxSide
        /\ Commit(file_path, content, AI_MOD, <<>>, MaxHistory)

NextHistory == HistoryCommitStep

SpecHistory == Init /\ [][NextHistory]_vars

\* the most inactive versions of a path between two cleanups: those a cleanup
\* leaves and one per commit before the next cleanup
MaxInactive == KeepVersions + (CleanupEvery - 1)

\* C38: starting from an empty store, after any sequence of commits through one
\* handle no path holds more than 14 inactive versions once a commit has
\* returned
C38_BoundedHistory ==
    /\ MaxInactive = 14
    /\ \A p \in StoredPaths : Cardinality(InactiveOf(artifacts, p)) <= MaxInactive

\* the cleanup of the tenth commit found five inactive versions of "a.tsx" and
\* removed nothing; nine commits later the path holds 14 inactive versions
C38_Witness ==
    /\ last.op = "commit"
    /\ last.ok
    /\ Accepted = 2 * CleanupEvery - 1
    /\ Len(artifacts) = 2 * CleanupEvery - 1
    /\ Cardinality(InactiveOf(artifacts, pA)) = MaxInactive
    /\ Cardinality(InactiveOf(artifacts, pB)) = 3

\* ---------------------------------------------------------------------------
\* project_store.py: create_project, update_project_timestamp and
\* delete_project, one step per file access.  FileLock is an exclusive
\* blocking lock taken inside _load_projects and inside _save_projects, so
\* each of the two is one step; nothing is held between them.
\* ---------------------------------------------------------------------------

\* datetime.utcnow(): later reads give later values
Now(cs) == 1 + Cardinality({c \in Callers : cs[c].now # 0})

\* update_project_timestamp: the first entry with the id gets the new time
update_project_timestamp(projects, project_id, now) ==
    [i \in 1 .. Len(projects) |->
        IF /\ projects[i].project_id = project_id
           /\ \A j \in 1 .. (i - 1) : projects[j].project_id # project_id
        THEN [projects[i] EXCEPT !.updated_at = now]
        ELSE projects[i]]

\* delete_project: the list without the entries of the id
delete_project(projects, project_id) ==
    SelectSeq(projects, LAMBDA p : p.project_id # project_id)

\* create_project: the new entry goes to the end of the list
create_project(projects, project_id, now) ==
    Append(projects, ProjectRecord(project_id, now))

\* A call starts: create_project is given a fresh id and reads the clock before
\* it loads; the other two are given the id of the earlier project.
StartCall(c, op) ==
    /\ store_calls[c].pc = "idle"
    /\ store_calls' = [store_calls EXCEPT ![c] =
           [NoCall EXCEPT !.pc = "ensure", !.op = op,
                          !.project_id = IF op = "create" THEN c ELSE SharedProject,
                          !.now = IF op = "create" THEN Now(store_calls) ELSE 0]]
    /\ UNCHANGED <<artifacts, disk, nextId, ncommits, last, req, nrequests, vin, vout,
                   handles, fstate, walk, state_file, mgr, gem, projects_file>>

\* _ensure_projects_file, the test: os.path.exists(PROJECTS_FILE)
EnsureProjectsFile(c) ==
    /\ store_calls[c].pc = "ensure"
    /\ store_calls' = [store_calls EXCEPT ![c].pc =
           IF projects_file.exists THEN "load" ELSE "init"]
    /\ UNCHANGED <<artifacts, disk, nextId, ncommits, last, req, nrequests, vin, vout,
                   handles, fstate, walk, state_file, mgr, gem, projects_file>>

\* _ensure_projects_file, the write of "[]": outside the lock
InitProjectsFile(c) ==
    /\ store_calls[c].pc = "init"
    /\ projects_file' = [exists |-> TRUE, projects |-> <<>>]
    /\ store_calls' = [store_calls EXCEPT ![c].pc = "load"]
    /\ UNCHANGED <<artifacts, disk, nextId, ncommits, last, req, nrequests, vin, vout,
                   handles, fstate, walk, state_file, mgr, gem>>

\* _load_projects under the lock, then the change of the loaded list in memory
LoadProjects(c) ==
    /\ store_calls[c].pc = "load"
    /\ LET call == store_calls[c]
           loaded == projects_file.projects
       IN  store_calls' = [store_calls EXCEPT ![c] =
               CASE call.op = "create" ->
                        [call EXCEPT !.pc = "save",
                                     !.projects = create_project(loaded, call.project_id,
                                                                 call.now)]
                 [] call.op = "update" ->
                        [call EXCEPT !.pc = "save", !.now = Now(store_calls),
                                     !.projects = update_project_timestamp(
                                         loaded, call.project_id, Now(store_calls))]
                 [] OTHER ->
                        IF Len(delete_project(loaded, call.project_id)) = Len(loaded)
                        THEN [call EXCEPT !.pc = "done", !.result = FALSE]
                        ELSE [call EXCEPT !.pc = "save",
                                          !.projects = delete_project(loaded,
                                                                      call.project_id)]]
    /\ UNCHANGED <<artifacts, disk, nextId, ncommits, last, req, nrequests, vin, vout,
                   handles, fstate, walk, state_file, mgr, gem, projects_file>>

\* _save_projects under the lock: the file becomes the caller's list (the file
\* exists since the load, so _ensure_projects_file does nothing here)
SaveProjects(c) ==
    /\ store_calls[c].pc = "save"
    /\ projects_file' = [exists |-> TRUE, projects |-> store_calls[c].projects]
    /\ store_calls' = [store_calls EXCEPT ![c].pc = "done", ![c].result = TRUE]
    /\ UNCHANGED <<artifacts, disk, nextId, ncommits, last, req, nrequests, vin, vout,
                   handles, fstate, walk, state_file, mgr, gem>>

\* projects.json before the calls: absent, empty, or holding one project
InitialProjectsFiles ==
    {NoProjectsFile,
     [exists |-> TRUE, projects |-> <<>>],
     [exists |-> TRUE, projects |-> <<ProjectRecord(SharedProject, 0)>>]}

InitProjects ==
    /\ artifacts = <<>>
    /\ disk = <<>>
    /\ nextId = 1
    /\ ncommits = [p \in StoredPaths |-> 0]
    /\ last = NoLast
    /\ req = NoReq
    /\ nrequests = 0
    /\ vin = NoVin
    /\ vout = NoVout
    /\ handles = [h \in Handles |-> NoHandle]
    /\ fstate = NoFile
    /\ walk = NoWalk
    /\ state_file = NoStateFile
    /\ mgr = NoMgr
    /\ gem = NoGem
    /\ projects_file \in InitialProjectsFiles
    /\ store_calls = NoCalls

NextProjects ==
    \E c \in Callers :
        \/ \E op \in ProjectOps : StartCall(c, op)
        \/ EnsureProjectsFile(c)
        \/ InitProjectsFile(c)
        \/ LoadProjects(c)
        \/ SaveProjects(c)

SpecProjects == InitProjects /\ [][NextProjects]_vars

\* ---------------------------------------------------------------------------
\* Concurrent writers of the projects file
\* ---------------------------------------------------------------------------
CallsDone == \A c \in Callers : store_calls[c].pc = "done"

\* the calls are about different projects: at most one of them is not a create
DifferentProjects ==
    Cardinality({c \in Callers : store_calls[c].op # "create"}) <= 1

HasProject(projects, project_id) ==
    \E i \in 1 .. Len(projects) : projects[i].project_id = project_id

\* what the call of c leaves in the file when nothing undoes it
TookEffect(c) ==
    LET call == store_calls[c]
        projects == projects_file.projects
    IN  CASE call.op = "create" -> HasProject(projects, call.project_id)
          [] call.op = "update" ->
                 \A i \in 1 .. Len(projects) :
                     projects[i].project_id = call.project_id
                         => projects[i].updated_at = call.now
          [] OTHER -> ~HasProject(projects, call.project_id)

\* C39: once concurrent calls about different projects (creates, and at most
\* one update_project_timestamp or delete_project of an earlier project) have
\* all returned, projects.json shows the effect of every one of them.
C39_ConcurrentCallsTakeEffect ==
    (CallsDone /\ DifferentProjects) => \A c \in Callers : TookEffect(c)

(***************************************************************************)
(* The Authority rule inside the chain                                     *)
(***************************************************************************)
\* C40: a batch the Authority rule rejects is rejected by the Scope rule as
\* well, so validate returns ok exactly when the Syntax, Scope and
\* Consistency rules pass; the Authority rule shows only in the reason, which
\* is its own exactly when Syntax passes and Authority fails.
C40_AuthorityOnlyNamesReason ==
    /\ AuthorityFails => ScopeFails
    /\ vout.rule = "validate"
       => /\ vout.ok <=> (~SyntaxFails /\ ~ScopeFails /\ ~ConsistencyFails)
          /\ vout.reason = "Unauthorized modification of user file"
                <=> (~SyntaxFails /\ AuthorityFails)
          /\ (~vout.ok /\ ~AuthorityFails)
                => vout.reason \in SyntaxReasons
                       \cup {"Out-of-scope modification", "Duplicate artifact"}

\* the chain rejects a batch for the Authority reason at the very artifact the
\* Scope rule would have rejected it for
C40_Witness ==
    /\ vout.rule = "validate"
    /\ ~vout.ok
    /\ ~SyntaxFails /\ AuthorityFails /\ ~ConsistencyFails
    /\ vout.reason = "Unauthorized modification of user file"
    /\ LET scope == ScopeCheck(vin.proposed, ActiveLookup(vin.active),
                               vin.allowed_paths)
       IN  /\ ~scope.ok
           /\ scope.path = vout.path

====
